---------------------------- MODULE Spec2Model ----------------------------
(***************************************************************************)
(* A model of clang/lib/Tooling/Syntax/BuildTree.cpp: the TreeBuilder that *)
(* folds the expanded tokens of a translation unit into a syntax tree, its *)
(* pending Forest, and the BuildTreeVisitor handlers that drive it.        *)
(*                                                                         *)
(* A token pointer is an index into the expanded-token array (1-based);    *)
(* the pointer one past a token t is t + 1.  A source location is the raw  *)
(* encoding of the place a token starts at; 0 is the invalid location.     *)
(* A syntax node is an index into the arena `nodes`; 0 is the null node.   *)
(* An assert of the source that fails aborts the program: `failure` keeps  *)
(* its message and nothing runs afterwards.                                *)
(***************************************************************************)
EXTENDS Integers, Sequences, FiniteSets, TLC

VARIABLES
  tokens,                  \* Arena.tokenBuffer().expandedTokens(): [kind, loc]
  unspelled,               \* tokens with no spelled counterpart (macro origin)
  nodes,                   \* the arena: every syntax::Node allocated so far
  Trees,                   \* Forest::Trees: first token -> subtree
  Mapping,                 \* ASTToSyntaxMapping: Nodes and NNSNodes
  DeclsWithoutSemicolons,  \* TreeBuilder::DeclsWithoutSemicolons
  failure,                 \* message of the assert that aborted, or NoFailure
  phase,                   \* "building", "folded", "done" or "aborted"
  root,                    \* the node finalize() returned, 0 before
  ast,                     \* the clang AST being traversed (read-only)
  todo,                    \* the visitor calls still to be made, in order
  lastOp,                  \* the call the last step made, with its arguments
  Input,                   \* the string handed to parseRangeSelector
  Parsed                   \* what parseRangeSelector returned, NoResult before

vars == << tokens, unspelled, nodes, Trees, Mapping, DeclsWithoutSemicolons,
           failure, phase, root, ast, todo, lastOp, Input, Parsed >>

-----------------------------------------------------------------------------
(* Bounds of the model.                                                    *)

\* The most non-eof tokens of a token buffer handed to the builder directly.
MaxTokens == 3

\* The most tree nodes a client of the builder folds before finalize().
MaxFolds == 2

\* The most AST nodes, and the most qualifiers, that a client of the builder
\* folds a node for.
MaxKeys == 1

-----------------------------------------------------------------------------
(* Values.                                                                 *)

NoFailure == "none"

\* parseRangeSelector has not returned.
NoResult == [called |-> FALSE]

\* Trees.end(), and the end() of a lookup that found nothing.
End == 0

\* A null ASTPtr / NestedNameSpecifierLoc without qualifier.
NullAST == 0

\* SourceLocation(): the invalid location.
InvalidLoc == 0

Min(S) == CHOOSE x \in S : \A y \in S : x <= y

Max(S) == CHOOSE x \in S : \A y \in S : x >= y

\* The raw encoding of the location where the i-th expanded token starts:
\* tokens are two characters apart, so not every valid location starts one.
LocOfIndex(i) == 2 * i

\* Number of expanded tokens without the trailing eof.
NumTokens == Len(tokens) - 1

-----------------------------------------------------------------------------
(* syntax::Node, syntax::Leaf, syntax::Tree (Tree.h / Tree.cpp).           *)

\* Node::Node: a new node is detached, not original, not modifiable.
NewTree(kind) ==
  [kind |-> kind, role |-> "Detached", children |-> << >>, tok |-> 0,
   original |-> FALSE, canModify |-> FALSE]

\* Leaf::Leaf(const Token *): a node of kind Leaf that wraps one token.
NewLeaf(t) == [NewTree("Leaf") EXCEPT !.tok = t]

\* TokenBuffer::spelledForExpanded(Range).hasValue(): every token of
\* [b, e) has a spelled counterpart.
spelledForExpanded(b, e) == \A t \in b .. (e - 1) : t \notin unspelled

RECURSIVE LeavesOfSeq(_, _)
\* The tokens under node n of arena ns, left to right.
LeavesOf(ns, n) ==
  IF ns[n].kind = "Leaf" THEN << ns[n].tok >> ELSE LeavesOfSeq(ns, ns[n].children)

LeavesOfSeq(ns, s) ==
  IF s = << >> THEN << >> ELSE LeavesOf(ns, Head(s)) \o LeavesOfSeq(ns, Tail(s))

RECURSIVE DescendantsOfSeq(_, _)
\* Node n and every node below it.
DescendantsOf(ns, n) == {n} \cup DescendantsOfSeq(ns, ns[n].children)

DescendantsOfSeq(ns, s) ==
  IF s = << >> THEN {} ELSE DescendantsOf(ns, Head(s)) \cup DescendantsOfSeq(ns, Tail(s))

-----------------------------------------------------------------------------
(* The builder state handed from call to call inside one handler.          *)

Cur ==
  [nodes |-> nodes, Trees |-> Trees, Mapping |-> Mapping,
   DeclsWithoutSemicolons |-> DeclsWithoutSemicolons, failure |-> failure]

\* A failed assert: the program aborts with this message.
Fail(st, msg) == [st EXCEPT !.failure = msg]

\* new (allocator()) syntax::<kind>: the new node is the last of the arena.
Alloc(st, kind) == [st EXCEPT !.nodes = Append(@, NewTree(kind))]

Last(st) == Len(st.nodes)

-----------------------------------------------------------------------------
(* TreeBuilder::Forest.                                                    *)

\* std::map::lower_bound: the first key not less than k, or end().
lower_bound(T, k) ==
  LET ge == {x \in DOMAIN T : x >= k}
  IN  IF ge = {} THEN End ELSE Min(ge)

\* std::next(It) of an iterator that is not end().
next(T, It) == lower_bound(T, It + 1)

\* Forest::Forest: one leaf per token, eof left out.
ForestInit(toks, unsp) ==
  [nodes |-> [t \in 1 .. (Len(toks) - 1) |->
                [NewLeaf(t) EXCEPT !.original = TRUE,
                                   !.canModify = (t \notin unsp)]],
   Trees |-> [t \in 1 .. (Len(toks) - 1) |-> t]]

\* Forest::assignRole(Range, Role), Range = [b, e).
assignRole(st, b, e, Role) ==
  IF st.failure # NoFailure THEN st
  ELSE IF ~(b < e) THEN Fail(st, "!Range.empty()")
  ELSE LET It == lower_bound(st.Trees, b) IN
    IF It = End THEN Fail(st, "no node found")
    ELSE IF It # b THEN Fail(st, "no child with the specified range")
    ELSE IF ~(next(st.Trees, It) = End \/ next(st.Trees, It) = e)
      THEN Fail(st, "no child with the specified range")
    ELSE IF st.nodes[st.Trees[It]].role # "Detached"
      THEN Fail(st, "re-assigning role for a child")
    ELSE [st EXCEPT !.nodes[st.Trees[It]].role = Role]

RECURSIVE foldLoopAppends(_, _, _, _, _)
\* foldLoop with the child appended, not prepended.
foldLoopAppends(ns, T, It, BeginChildren, Node) ==
  IF It = BeginChildren THEN ns
  ELSE LET prev == Max({k \in DOMAIN T : It = End \/ k < It})
           C == T[prev]
           marked == IF ns[C].role = "Detached"
                       THEN [ns EXCEPT ![C].role = "Unknown"] ELSE ns
           attached == [marked EXCEPT ![Node].children = @ \o << C >>]
       IN  foldLoopAppends(attached, T, prev, BeginChildren, Node)

RECURSIVE foldLoopOverwrites(_, _, _, _, _)
\* foldLoop giving role Unknown to every child, detached or not.
foldLoopOverwrites(ns, T, It, BeginChildren, Node) ==
  IF It = BeginChildren THEN ns
  ELSE LET prev == Max({k \in DOMAIN T : It = End \/ k < It})
           C == T[prev]
           marked == [ns EXCEPT ![C].role = "Unknown"]
           attached == [marked EXCEPT ![Node].children = << C >> \o @]
       IN  foldLoopOverwrites(attached, T, prev, BeginChildren, Node)

RECURSIVE foldLoopLeavesDetached(_, _, _, _, _)
\* foldLoop that attaches a detached child without giving it a role.
foldLoopLeavesDetached(ns, T, It, BeginChildren, Node) ==
  IF It = BeginChildren THEN ns
  ELSE LET prev == Max({k \in DOMAIN T : It = End \/ k < It})
           C == T[prev]
           attached == [ns EXCEPT ![Node].children = << C >> \o @]
       IN  foldLoopLeavesDetached(attached, T, prev, BeginChildren, Node)

RECURSIVE foldLoop(_, _, _, _, _)
\* The loop of foldChildren, from EndChildren back to BeginChildren: the
\* entry before It gets role Unknown if it is still detached and is
\* prepended to Node.
foldLoop(ns, T, It, BeginChildren, Node) ==
  IF It = BeginChildren THEN ns
  ELSE LET prev == Max({k \in DOMAIN T : It = End \/ k < It})
           C == T[prev]
           marked == IF ns[C].role = "Detached"
                       THEN [ns EXCEPT ![C].role = "Unknown"] ELSE ns
           attached == [marked EXCEPT ![Node].children = << C >> \o @]
       IN  foldLoop(attached, T, prev, BeginChildren, Node)

\* foldChildren that erases every entry from the first child on.
foldChildrenErasesTail(st, b, e, Node) ==
  IF st.failure # NoFailure THEN st
  ELSE IF st.nodes[Node].children # << >> THEN Fail(st, "node already has children")
  ELSE LET FirstToken == b
           BeginChildren == lower_bound(st.Trees, FirstToken)
           EndChildren == lower_bound(st.Trees, e) IN
    IF ~(BeginChildren = End \/ BeginChildren = FirstToken)
      THEN Fail(st, "fold crosses boundaries of existing subtrees")
    ELSE IF ~(EndChildren = End \/ EndChildren = e)
      THEN Fail(st, "fold crosses boundaries of existing subtrees")
    ELSE LET folded == foldLoop(st.nodes, st.Trees, EndChildren, BeginChildren, Node)
             flagged == [folded EXCEPT ![Node].original = TRUE,
                                       ![Node].canModify = spelledForExpanded(b, e)]
             erased == {k \in DOMAIN st.Trees :
                          BeginChildren # End /\ k >= BeginChildren}
             kept == [k \in (DOMAIN st.Trees) \ erased |-> st.Trees[k]]
             \* std::map::insert keeps the entry of a key that is present
             inserted == IF FirstToken \in DOMAIN kept THEN kept
                         ELSE (FirstToken :> Node) @@ kept
         IN  [st EXCEPT !.nodes = flagged, !.Trees = inserted]

\* Forest::foldChildren(A, Tokens, Node), Tokens = [b, e).
foldChildren(st, b, e, Node) ==
  IF st.failure # NoFailure THEN st
  ELSE IF st.nodes[Node].children # << >> THEN Fail(st, "node already has children")
  ELSE LET FirstToken == b
           BeginChildren == lower_bound(st.Trees, FirstToken)
           EndChildren == lower_bound(st.Trees, e) IN
    IF ~(BeginChildren = End \/ BeginChildren = FirstToken)
      THEN Fail(st, "fold crosses boundaries of existing subtrees")
    ELSE IF ~(EndChildren = End \/ EndChildren = e)
      THEN Fail(st, "fold crosses boundaries of existing subtrees")
    ELSE LET folded == foldLoop(st.nodes, st.Trees, EndChildren, BeginChildren, Node)
             flagged == [folded EXCEPT ![Node].original = TRUE,
                                       ![Node].canModify = spelledForExpanded(b, e)]
             erased == {k \in DOMAIN st.Trees :
                          /\ BeginChildren # End /\ k >= BeginChildren
                          /\ (EndChildren = End \/ k < EndChildren)}
             kept == [k \in (DOMAIN st.Trees) \ erased |-> st.Trees[k]]
             \* std::map::insert keeps the entry of a key that is present
             inserted == IF FirstToken \in DOMAIN kept THEN kept
                         ELSE (FirstToken :> Node) @@ kept
         IN  [st EXCEPT !.nodes = flagged, !.Trees = inserted]


\* Forest::finalize() &&: the single root; the forest is left empty.
ForestFinalize(st) ==
  IF st.failure # NoFailure THEN st
  ELSE IF Cardinality(DOMAIN st.Trees) # 1 THEN Fail(st, "Trees.size() == 1")
  ELSE [st EXCEPT !.Trees = << >>]

\* The node Forest::finalize() returns: Trees.begin()->second.
ForestRoot(st) == st.Trees[Min(DOMAIN st.Trees)]

-----------------------------------------------------------------------------
(* ASTToSyntaxMapping.                                                     *)

\* ASTToSyntaxMapping::add with operator[] for insert(): a second add of a
\* key replaces the tree recorded for it.
MappingAddOrAssign(st, From, To) ==
  IF st.failure # NoFailure THEN st
  ELSE IF To = 0 THEN Fail(st, "To != nullptr")
  ELSE IF From = NullAST THEN Fail(st, "!From.isNull()")
  ELSE [st EXCEPT !.Mapping.Nodes = (From :> To) @@ @]

\* ASTToSyntaxMapping::add(ASTPtr From, syntax::Tree *To).
MappingAdd(st, From, To) ==
  IF st.failure # NoFailure THEN st
  ELSE IF To = 0 THEN Fail(st, "To != nullptr")
  ELSE IF From = NullAST THEN Fail(st, "!From.isNull()")
  ELSE IF From \in DOMAIN st.Mapping.Nodes THEN Fail(st, "mapping added twice")
  ELSE [st EXCEPT !.Mapping.Nodes = (From :> To) @@ @]

\* ASTToSyntaxMapping::add(NestedNameSpecifierLoc From, syntax::Tree *To).
MappingAddNNS(st, From, To) ==
  IF st.failure # NoFailure THEN st
  ELSE IF To = 0 THEN Fail(st, "To != nullptr")
  ELSE IF From = NullAST THEN Fail(st, "From.hasQualifier()")
  ELSE IF From \in DOMAIN st.Mapping.NNSNodes THEN Fail(st, "mapping added twice")
  ELSE [st EXCEPT !.Mapping.NNSNodes = (From :> To) @@ @]

\* ASTToSyntaxMapping::find(ASTPtr): DenseMap::lookup, null when absent.
MappingFind(st, P) ==
  IF P \in DOMAIN st.Mapping.Nodes THEN st.Mapping.Nodes[P] ELSE 0

\* ASTToSyntaxMapping::find(NestedNameSpecifierLoc).
MappingFindNNS(st, P) ==
  IF P \in DOMAIN st.Mapping.NNSNodes THEN st.Mapping.NNSNodes[P] ELSE 0

-----------------------------------------------------------------------------
(* TreeBuilder.                                                            *)

\* TreeBuilder::TreeBuilder fills LocationToToken, raw location -> token,
\* and insert keeps the first token of a location; this is
\* LocationToToken.find(L), End when no token starts at L.
LocationToToken(L) ==
  IF \E i \in 1 .. Len(tokens) : tokens[i].loc = L
    THEN Min({i \in 1 .. Len(tokens) : tokens[i].loc = L})
  ELSE End

\* TreeBuilder::findToken(L): null for the invalid location.  The assert
\* that a valid location starts a token is findTokenFails.
findToken(L) == IF L = InvalidLoc THEN 0 ELSE LocationToToken(L)

findTokenFails(L) == L # InvalidLoc /\ LocationToToken(L) = End

\* setRole without the assert that the node is still detached.
setRoleUnchecked(st, N, R) ==
  IF st.failure # NoFailure THEN st
  ELSE [st EXCEPT !.nodes[N].role = R]

\* TreeBuilder::setRole(N, R).
setRole(st, N, R) ==
  IF st.failure # NoFailure THEN st
  ELSE IF st.nodes[N].role # "Detached" THEN Fail(st, "N->role() == NodeRole::Detached")
  ELSE [st EXCEPT !.nodes[N].role = R]

\* foldNode that leaves the new node's Original flag unset.
foldNodeNotOriginal(st, b, e, New, From) ==
  IF st.failure # NoFailure THEN st
  ELSE IF New = 0 THEN Fail(st, "New")
  ELSE LET folded == foldChildren(st, b, e, New)
           cleared == IF folded.failure # NoFailure THEN folded
                      ELSE [folded EXCEPT !.nodes[New].original = FALSE]
       IN  IF From # NullAST THEN MappingAdd(cleared, From, New) ELSE cleared

\* TreeBuilder::foldNode(Range, New, ASTPtr From), Range = [b, e).
foldNode(st, b, e, New, From) ==
  IF st.failure # NoFailure THEN st
  ELSE IF New = 0 THEN Fail(st, "New")
  ELSE LET folded == foldChildren(st, b, e, New)
       IN  IF From # NullAST THEN MappingAdd(folded, From, New) ELSE folded

\* TreeBuilder::foldNode(Range, New, NestedNameSpecifierLoc From).
foldNodeNNS(st, b, e, New, From) ==
  IF st.failure # NoFailure THEN st
  ELSE IF New = 0 THEN Fail(st, "New")
  ELSE LET folded == foldChildren(st, b, e, New)
       IN  IF From # NullAST THEN MappingAddNNS(folded, From, New) ELSE folded

\* markChildToken that looks for the token of an invalid location too.
markChildTokenOfAnyLoc(st, Loc, Role) ==
  IF st.failure # NoFailure THEN st
  ELSE IF LocationToToken(Loc) = End THEN Fail(st, "It != LocationToToken.end()")
  ELSE assignRole(st, LocationToToken(Loc), LocationToToken(Loc) + 1, Role)

\* TreeBuilder::markChildToken(const syntax::Token *T, NodeRole R).
markChildTokenPtr(st, T, R) ==
  IF st.failure # NoFailure THEN st
  ELSE IF T = 0 THEN st
  ELSE assignRole(st, T, T + 1, R)

\* TreeBuilder::markChildToken(SourceLocation Loc, NodeRole Role).
markChildToken(st, Loc, Role) ==
  IF st.failure # NoFailure THEN st
  ELSE IF Loc = InvalidLoc THEN st
  ELSE IF findTokenFails(Loc) THEN Fail(st, "It != LocationToToken.end()")
  ELSE assignRole(st, findToken(Loc), findToken(Loc) + 1, Role)

\* TreeBuilder::markChild(syntax::Node *N, NodeRole R).
markChild(st, N, R) ==
  IF st.failure # NoFailure THEN st
  ELSE IF N = 0 THEN Fail(st, "N")
  ELSE setRole(st, N, R)

\* TreeBuilder::markChild(ASTPtr N, NodeRole R).
markChildAST(st, N, R) ==
  IF st.failure # NoFailure THEN st
  ELSE IF MappingFind(st, N) = 0 THEN Fail(st, "SN != nullptr")
  ELSE setRole(st, MappingFind(st, N), R)

\* finalizeFold dropping the last token along with eof.
finalizeFoldDropsTwo(st) ==
  IF st.failure # NoFailure THEN st
  ELSE foldChildren(Alloc(st, "TranslationUnit"), 1, Len(tokens) - 1, Last(st) + 1)

\* finalizeFold that asserts there is a token before eof.
finalizeFoldOfTokens(st) ==
  IF st.failure # NoFailure THEN st
  ELSE IF Len(tokens) <= 1 THEN Fail(st, "!Tokens.empty()")
  ELSE IF tokens[Len(tokens)].kind # "eof" THEN Fail(st, "Tokens.back().kind() == tok::eof")
  ELSE foldChildren(Alloc(st, "TranslationUnit"), 1, Len(tokens), Last(st) + 1)

\* TreeBuilder::finalize() &&, up to the fold of the root: every token but
\* eof is folded under a new TranslationUnit.
finalizeFold(st) ==
  IF st.failure # NoFailure THEN st
  ELSE IF Len(tokens) = 0 THEN Fail(st, "!Tokens.empty()")
  ELSE IF tokens[Len(tokens)].kind # "eof" THEN Fail(st, "Tokens.back().kind() == tok::eof")
  ELSE foldChildren(Alloc(st, "TranslationUnit"), 1, Len(tokens), Last(st) + 1)

-----------------------------------------------------------------------------
(* The clang AST, as the visitor reads it.  A node of `ast` is a Stmt, an  *)
(* Expr or a Decl: its kind, its source range [b, e] (the locations of its *)
(* first and last token), its children (0 for a null child), and the       *)
(* locations and type-location its accessors return.                       *)

ExprKinds ==
  {"IntegerLiteral", "DeclRefExpr", "ImplicitCastExpr", "CXXOperatorCallExpr",
   "MemberExpr", "CXXThisExpr", "BinaryOperator", "UnaryOperator"}

\* Expr::IgnoreImplicit() steps through these.
ImplicitKinds == {"ImplicitCastExpr"}

TagDeclKinds ==
  {"CXXRecordDecl", "EnumDecl", "ClassTemplateSpecializationDecl",
   "ClassTemplatePartialSpecializationDecl"}

\* isa<DeclaratorDecl>(D)
DeclaratorDeclKinds == {"VarDecl", "FunctionDecl", "ParmVarDecl"}

\* isa<Expr>(S)
isaExpr(S) == ast[S].kind \in ExprKinds

RECURSIVE IgnoreImplicit(_)
\* Expr::IgnoreImplicit(): the written expression under implicit nodes.
IgnoreImplicit(E) ==
  IF ast[E].kind \in ImplicitKinds THEN IgnoreImplicit(ast[E].kids[1]) ELSE E

\* SourceManager::isBeforeInTranslationUnit on locations of one file.
isBeforeInTranslationUnit(L, R) == L < R

\* A SourceRange; SourceRange() is invalid.
SourceRange(B, E) == [b |-> B, e |-> E]

rangeIsValid(SR) == SR.b # InvalidLoc /\ SR.e # InvalidLoc

\* A token range [b, e) that a range computer returns, or the assert that
\* failed while computing it.
TokRange(B, E) == [ok |-> TRUE, b |-> B, e |-> E, msg |-> ""]

BadRange(msg) == [ok |-> FALSE, b |-> 0, e |-> 0, msg |-> msg]

\* TreeBuilder::getRange(SourceLocation First, SourceLocation Last).
getRange(FirstLoc, LastLoc) ==
  IF FirstLoc = InvalidLoc THEN BadRange("First.isValid()")
  ELSE IF LastLoc = InvalidLoc THEN BadRange("Last.isValid()")
  ELSE IF ~(FirstLoc = LastLoc \/ isBeforeInTranslationUnit(FirstLoc, LastLoc))
    THEN BadRange("First == Last || isBeforeInTranslationUnit(First, Last)")
  ELSE IF findTokenFails(FirstLoc) \/ findTokenFails(LastLoc)
    THEN BadRange("It != LocationToToken.end()")
  ELSE TokRange(findToken(FirstLoc), findToken(LastLoc) + 1)

\* TreeBuilder::getRange(SourceRange Range).
getRangeOf(SR) ==
  IF ~rangeIsValid(SR) THEN BadRange("Range.isValid()") ELSE getRange(SR.b, SR.e)

\* withTrailingSemicolon that takes the next token whatever its kind.
withTrailingToken(R) ==
  IF ~R.ok THEN R
  ELSE IF ~(R.b < R.e) THEN BadRange("!Tokens.empty()")
  ELSE IF tokens[R.e - 1].kind = "eof" THEN BadRange("Tokens.back().kind() != tok::eof")
  ELSE IF tokens[R.e - 1].kind # "semi" THEN TokRange(R.b, R.e + 1)
  ELSE R

\* TreeBuilder::withTrailingSemicolon(Tokens).
withTrailingSemicolon(R) ==
  IF ~R.ok THEN R
  ELSE IF ~(R.b < R.e) THEN BadRange("!Tokens.empty()")
  ELSE IF tokens[R.e - 1].kind = "eof" THEN BadRange("Tokens.back().kind() != tok::eof")
  ELSE IF tokens[R.e - 1].kind # "semi" /\ tokens[R.e].kind = "semi"
    THEN TokRange(R.b, R.e + 1)
  ELSE R

\* TreeBuilder::maybeAppendSemicolon(Tokens, D).
maybeAppendSemicolon(st, R, D) ==
  IF ast[D].kind = "NamespaceDecl" THEN R
  ELSE IF D \in st.DeclsWithoutSemicolons THEN R
  ELSE withTrailingSemicolon(R)

\* getDeclarationRange without the case of the tag declarations.
getDeclarationRangeOfAnyDecl(st, D) ==
  maybeAppendSemicolon(st, getRangeOf(SourceRange(ast[D].b, ast[D].e)), D)

\* TreeBuilder::getDeclarationRange(D).
getDeclarationRange(st, D) ==
  IF ast[D].kind \in TagDeclKinds
    THEN maybeAppendSemicolon(st, getRange(ast[D].tagLoc, ast[D].e), D)
  ELSE maybeAppendSemicolon(st, getRangeOf(SourceRange(ast[D].b, ast[D].e)), D)

\* TreeBuilder::getExprRange(E).
getExprRange(E) == getRangeOf(SourceRange(ast[E].b, ast[E].e))

\* getStmtRange without the test for a compound statement.
getStmtRangeOfAnyStmt(S) ==
  LET Tokens == getRangeOf(SourceRange(ast[S].b, ast[S].e)) IN
  IF ~Tokens.ok THEN Tokens
  ELSE IF tokens[Tokens.e - 1].kind = "semi" THEN Tokens
  ELSE withTrailingSemicolon(Tokens)

\* TreeBuilder::getStmtRange(S).
getStmtRange(S) ==
  LET Tokens == getRangeOf(SourceRange(ast[S].b, ast[S].e)) IN
  IF ~Tokens.ok THEN Tokens
  ELSE IF ast[S].kind = "CompoundStmt" THEN Tokens
  ELSE IF tokens[Tokens.e - 1].kind = "semi" THEN Tokens
  ELSE withTrailingSemicolon(Tokens)

\* foldNode(<range>, New, From) with the range a range computer returned.
foldNodeOver(st, R, New, From) ==
  IF st.failure # NoFailure THEN st
  ELSE IF ~R.ok THEN Fail(st, R.msg)
  ELSE foldNode(st, R.b, R.e, New, From)

\* TreeBuilder::noticeDeclWithoutSemicolon(D).
noticeDeclWithoutSemicolon(st, D) ==
  IF st.failure # NoFailure THEN st
  ELSE [st EXCEPT !.DeclsWithoutSemicolons = @ \cup {D}]

\* markExprChild that looks the child up with its implicit nodes.
markExprChildAsHeld(st, Child, Role) ==
  IF st.failure # NoFailure THEN st
  ELSE IF Child = NullAST THEN st
  ELSE LET ChildNode == MappingFind(st, Child) IN
    IF ChildNode = 0 THEN Fail(st, "ChildNode != nullptr")
    ELSE setRole(st, ChildNode, Role)

\* TreeBuilder::markExprChild(Child, Role).
markExprChild(st, Child, Role) ==
  IF st.failure # NoFailure THEN st
  ELSE IF Child = NullAST THEN st
  ELSE LET ChildNode == MappingFind(st, IgnoreImplicit(Child)) IN
    IF ChildNode = 0 THEN Fail(st, "ChildNode != nullptr")
    ELSE setRole(st, ChildNode, Role)

\* markStmtChild that gives Role to the node of the expression and leaves
\* the ExpressionStatement without one.
markStmtChildRoleToExpr(st, Child, Role) ==
  IF st.failure # NoFailure THEN st
  ELSE IF Child = NullAST THEN st
  ELSE IF isaExpr(Child)
    THEN LET marked == markExprChild(st, Child, Role)
             alloc == Alloc(marked, "ExpressionStatement")
             R == getStmtRange(Child)
         IN  IF marked.failure # NoFailure THEN marked
             ELSE IF ~R.ok THEN Fail(alloc, R.msg)
             ELSE foldChildren(alloc, R.b, R.e, Last(alloc))
  ELSE LET ChildNode == MappingFind(st, Child) IN
    IF ChildNode = 0 THEN Fail(st, "ChildNode != nullptr")
    ELSE setRole(st, ChildNode, Role)

\* TreeBuilder::markStmtChild(Child, Role).
markStmtChild(st, Child, Role) ==
  IF st.failure # NoFailure THEN st
  ELSE IF Child = NullAST THEN st
  ELSE IF isaExpr(Child)
    THEN LET marked == markExprChild(st, Child, "ExpressionStatement_expression")
             alloc == Alloc(marked, "ExpressionStatement")
             ChildNode == Last(alloc)
             R == getStmtRange(Child)
             folded == IF marked.failure # NoFailure THEN marked
                       ELSE IF ~R.ok THEN Fail(alloc, R.msg)
                       ELSE foldChildren(alloc, R.b, R.e, ChildNode)
         IN  setRole(folded, ChildNode, Role)
  ELSE LET ChildNode == MappingFind(st, Child) IN
    IF ChildNode = 0 THEN Fail(st, "ChildNode != nullptr")
    ELSE setRole(st, ChildNode, Role)

\* GetStartLoc whose HandlePointer and VisitParenTypeLoc return their own
\* location without visiting the pointee or the inner type.
GetStartLocOutermost(chain) ==
  LET found == {k \in 1 .. Len(chain) :
                  /\ chain[k].kind \in {"Paren", "Pointer", "MemberPointer", "BlockPointer",
                                        "Reference", "ObjCObjectPointer"}
                  /\ \A s \in 1 .. k : ~(chain[s].kind = "FunctionProto" /\ chain[s].trailing)}
  IN  IF found = {} THEN InvalidLoc ELSE chain[Min(found)].b

RECURSIVE GetStartLoc(_)
\* GetStartLoc().Visit(T) over the chain of type-locations T, T's next
\* type-location, ...: the location where the declarator starts.
GetStartLoc(chain) ==
  IF chain = << >> THEN InvalidLoc
  ELSE LET T == Head(chain) IN
    IF T.kind = "Paren"
      THEN LET L == GetStartLoc(Tail(chain)) IN IF L # InvalidLoc THEN L ELSE T.b
    ELSE IF T.kind \in {"Pointer", "MemberPointer", "BlockPointer", "Reference",
                        "ObjCObjectPointer"}
      THEN LET L == GetStartLoc(Tail(chain)) IN IF L # InvalidLoc THEN L ELSE T.b
    ELSE IF T.kind = "FunctionProto" /\ T.trailing THEN InvalidLoc
    ELSE GetStartLoc(Tail(chain))

\* getDeclaratorRange that takes no account of the name.
getDeclaratorRangeOfType(T, Name, Initializer) ==
  [ok |-> T.e # InvalidLoc,
   r |-> SourceRange(GetStartLoc(T.chain),
                     IF rangeIsValid(Initializer) THEN Initializer.e ELSE T.e)]

\* getDeclaratorRange(SM, T, Name, Initializer); ok is false when the
\* assert on the type-location's end fails.
getDeclaratorRange(T, Name, Initializer) ==
  LET Start0 == GetStartLoc(T.chain)
      End0 == T.e
      Start1 == IF Name # InvalidLoc /\ Start0 = InvalidLoc THEN Name ELSE Start0
      End1 == IF Name # InvalidLoc /\ isBeforeInTranslationUnit(End0, Name)
                THEN Name ELSE End0
  IN  IF End0 = InvalidLoc THEN [ok |-> FALSE, r |-> SourceRange(0, 0)]
      ELSE IF rangeIsValid(Initializer)
        THEN IF ~(isBeforeInTranslationUnit(End1, Initializer.e) \/ End1 = Initializer.e)
               THEN [ok |-> FALSE, r |-> SourceRange(0, 0)]
             ELSE [ok |-> TRUE, r |-> SourceRange(Start1, Initializer.e)]
      ELSE [ok |-> TRUE, r |-> SourceRange(Start1, End1)]

\* Decl::getNextDeclInContext(): the next declaration of D's context.
getNextDeclInContext(D) ==
  LET later == {N \in 1 .. Len(ast) :
                  /\ N > D /\ ast[N].isDecl /\ ast[N].ctx = ast[D].ctx}
  IN  IF later = {} THEN NullAST ELSE Min(later)

\* isResponsibleForCreatingDeclaration answering yes for every declarator.
everyDeclaratorIsResponsible(D) == TRUE

\* TreeBuilder::isResponsibleForCreatingDeclaration<DeclaratorDecl>(D).
isResponsibleForCreatingDeclaration(D) ==
  LET Next_ == getNextDeclInContext(D) IN
  IF Next_ = NullAST THEN TRUE
  ELSE IF ast[Next_].kind \notin DeclaratorDeclKinds THEN TRUE
  ELSE IF ast[Next_].b # ast[D].b THEN TRUE
  ELSE FALSE

-----------------------------------------------------------------------------
(* BuildTreeVisitor: the WalkUpFrom handlers.  The accessors of a Stmt     *)
(* read its node of `ast`: a keyword location is the node's begin, the     *)
(* braces of a compound statement are its begin and end.                   *)

\* Builder.foldNode(<range>, new (allocator()) syntax::<kind>, From).
foldNew(st, R, kind, From) ==
  IF st.failure # NoFailure THEN st
  ELSE foldNodeOver(Alloc(st, kind), R, Last(st) + 1, From)

RECURSIVE markStmtChildren(_, _, _)
\* for (auto *Child : S->body()) Builder.markStmtChild(Child, Role);
markStmtChildren(st, body, Role) ==
  IF body = << >> THEN st
  ELSE markStmtChildren(markStmtChild(st, Head(body), Role), Tail(body), Role)

getThen(S) == ast[S].kids[2]

getElse(S) == ast[S].kids[3]

getBody(S) == ast[S].kids[Len(ast[S].kids)]

getRetValue(S) == ast[S].kids[1]

getInit(D) == ast[D].kids[1]

WalkUpFromCompoundStmt(st, S) ==
  LET open == markChildToken(st, ast[S].b, "OpenParen")
      body == markStmtChildren(open, ast[S].kids, "CompoundStatement_statement")
      close == markChildToken(body, ast[S].e, "CloseParen")
  IN  foldNew(close, getStmtRange(S), "CompoundStatement", S)

WalkUpFromStmt(st, S) == foldNew(st, getStmtRange(S), "UnknownStatement", S)

isImplicitExpr(E) == ast[E].kind \in ImplicitKinds

WalkUpFromExpr(st, E) ==
  IF st.failure # NoFailure THEN st
  ELSE IF isImplicitExpr(E) THEN Fail(st, "should be handled by TraverseStmt")
  ELSE foldNew(st, getExprRange(E), "UnknownExpression", E)

\* BuildTreeVisitor::buildIdExpression, for an id without qualifier when
\* QualifierLoc is null.
buildIdExpression(st, QualifierLoc, TemplateKeywordLoc, UnqualifiedIdLoc, From) ==
  LET qual == IF QualifierLoc = NullAST THEN st
              ELSE IF MappingFindNNS(st, QualifierLoc) = 0
                THEN Fail(st, "SN != nullptr")
              ELSE markChildToken(
                     setRole(st, MappingFindNNS(st, QualifierLoc),
                             "IdExpression_qualifier"),
                     TemplateKeywordLoc, "TemplateKeyword")
      TheUnqualifiedId == Last(qual) + 1
      id == foldNew(qual, getRangeOf(UnqualifiedIdLoc), "UnqualifiedId", NullAST)
      marked == markChild(id, TheUnqualifiedId, "IdExpression_id")
      IdExpressionBeginLoc == IF QualifierLoc # NullAST THEN ast[QualifierLoc].b
                              ELSE UnqualifiedIdLoc.b
  IN  foldNew(marked, getRange(IdExpressionBeginLoc, UnqualifiedIdLoc.e),
              "IdExpression", From)

WalkUpFromDeclRefExpr(st, S) ==
  buildIdExpression(st, ast[S].qualifier, ast[S].templateKwLoc,
                    SourceRange(ast[S].nameLoc, ast[S].e), S)

getBase(S) == ast[S].kids[1]

\* MemberExpr::isImplicitAccess(): the base is an implicit `this`.
isImplicitAccess(S) ==
  /\ getBase(S) # NullAST
  /\ ast[getBase(S)].kind = "CXXThisExpr"
  /\ ast[getBase(S)].isImplicit

\* WalkUpFromMemberExpr that builds a MemberExpression for an implicit
\* access too.
WalkUpFromMemberExprOfAnyAccess(st, S) ==
  LET id == buildIdExpression(st, ast[S].qualifier, ast[S].templateKwLoc,
                              SourceRange(ast[S].nameLoc, ast[S].e), NullAST)
      member == markChild(id, Last(id), "MemberExpression_member")
      object == IF isImplicitAccess(S) THEN member
                ELSE markExprChild(member, getBase(S), "MemberExpression_object")
      token == markChildToken(object, ast[S].operatorLoc, "MemberExpression_accessToken")
  IN  foldNew(token, getExprRange(S), "MemberExpression", S)

WalkUpFromMemberExpr(st, S) ==
  IF isImplicitAccess(S)
    THEN buildIdExpression(st, ast[S].qualifier, ast[S].templateKwLoc,
                           SourceRange(ast[S].nameLoc, ast[S].e), S)
  ELSE LET id == buildIdExpression(st, ast[S].qualifier, ast[S].templateKwLoc,
                                   SourceRange(ast[S].nameLoc, ast[S].e), NullAST)
           member == markChild(id, Last(id), "MemberExpression_member")
           object == markExprChild(member, getBase(S), "MemberExpression_object")
           token == markChildToken(object, ast[S].operatorLoc,
                                   "MemberExpression_accessToken")
       IN  foldNew(token, getExprRange(S), "MemberExpression", S)

WalkUpFromCXXThisExpr(st, S) ==
  IF ast[S].isImplicit THEN st
  ELSE foldNew(markChildToken(st, ast[S].b, "IntroducerKeyword"),
               getExprRange(S), "ThisExpression", S)

WalkUpFromIntegerLiteral(st, S) ==
  foldNew(markChildToken(st, ast[S].b, "LiteralToken"),
          getExprRange(S), "IntegerLiteralExpression", S)

WalkUpFromDeclStmt(st, S) == foldNew(st, getStmtRange(S), "DeclarationStatement", S)

WalkUpFromNullStmt(st, S) == foldNew(st, getStmtRange(S), "EmptyStatement", S)

WalkUpFromSwitchStmt(st, S) ==
  LET kw == markChildToken(st, ast[S].b, "IntroducerKeyword")
      body == markStmtChild(kw, getBody(S), "BodyStatement")
  IN  foldNew(body, getStmtRange(S), "SwitchStatement", S)

WalkUpFromIfStmt(st, S) ==
  LET kw == markChildToken(st, ast[S].b, "IntroducerKeyword")
      then == markStmtChild(kw, getThen(S), "IfStatement_thenStatement")
      elseKw == markChildToken(then, ast[S].elseLoc, "IfStatement_elseKeyword")
      else == markStmtChild(elseKw, getElse(S), "IfStatement_elseStatement")
  IN  foldNew(else, getStmtRange(S), "IfStatement", S)

WalkUpFromForStmt(st, S) ==
  LET kw == markChildToken(st, ast[S].b, "IntroducerKeyword")
      body == markStmtChild(kw, getBody(S), "BodyStatement")
  IN  foldNew(body, getStmtRange(S), "ForStatement", S)

WalkUpFromWhileStmt(st, S) ==
  LET kw == markChildToken(st, ast[S].b, "IntroducerKeyword")
      body == markStmtChild(kw, getBody(S), "BodyStatement")
  IN  foldNew(body, getStmtRange(S), "WhileStatement", S)

WalkUpFromReturnStmt(st, S) ==
  LET kw == markChildToken(st, ast[S].b, "IntroducerKeyword")
      value == markExprChild(kw, getRetValue(S), "ReturnStatement_value")
  IN  foldNew(value, getStmtRange(S), "ReturnStatement", S)

WalkUpFromEmptyDecl(st, S) ==
  foldNew(st, getDeclarationRange(st, S), "EmptyDeclaration", S)

RECURSIVE markParameters(_, _)
\* for (auto *P : L.getParams())
\*   Builder.markChild(P, ParametersAndQualifiers_parameter);
markParameters(st, params) ==
  IF params = << >> THEN st
  ELSE markParameters(markChildAST(st, Head(params), "ParametersAndQualifiers_parameter"),
                      Tail(params))

\* WalkUpFromFunctionTypeLoc(L), L the I-th type-location of the
\* declaration D; no mapping is kept for a TypeLoc.
WalkUpFromFunctionTypeLoc(st, D, I) ==
  LET L == ast[D].typeLoc.chain[I]
      open == markChildToken(st, L.b, "OpenParen")
      params == markParameters(open, L.params)
      close == markChildToken(params, L.rparen, "CloseParen")
  IN  foldNew(close, getRange(L.b, L.e), "ParametersAndQualifiers", NullAST)

\* WalkUpFromParenTypeLoc(L), L the I-th type-location of the declaration D.
WalkUpFromParenTypeLoc(st, D, I) ==
  LET L == ast[D].typeLoc.chain[I]
      open == markChildToken(st, L.b, "OpenParen")
      close == markChildToken(open, L.rparen, "CloseParen")
  IN  foldNew(close, getRange(L.b, L.rparen), "ParenDeclarator", NullAST)

\* BuildTreeVisitor::getQualifiedNameStart(D).
getQualifiedNameStart(D) ==
  IF ast[D].nameLoc = InvalidLoc THEN InvalidLoc
  ELSE IF ast[D].qualifier # NullAST THEN ast[ast[D].qualifier].b
  ELSE ast[D].nameLoc

\* BuildTreeVisitor::getInitializerRange(D).
getInitializerRange(D) ==
  IF ast[D].kind \in {"VarDecl", "ParmVarDecl"} /\ getInit(D) # NullAST
    THEN SourceRange(ast[getInit(D)].b, ast[getInit(D)].e)
  ELSE SourceRange(InvalidLoc, InvalidLoc)

\* BuildTreeVisitor::processDeclaratorAndDeclaration(D), which
\* WalkUpFromDeclaratorDecl calls.
processDeclaratorAndDeclaration(st, D) ==
  LET Range == getDeclaratorRange(ast[D].typeLoc, getQualifiedNameStart(D),
                                  getInitializerRange(D))
      N == Last(st) + 1
      declarator ==
        IF st.failure # NoFailure THEN st
        ELSE IF ~Range.ok THEN Fail(st, "End.isValid()")
        ELSE IF Range.r.b # InvalidLoc
          THEN markChild(foldNew(st, getRangeOf(Range.r), "SimpleDeclarator", NullAST),
                         N, "SimpleDeclaration_declarator")
        ELSE st
  IN  IF isResponsibleForCreatingDeclaration(D)
        THEN foldNew(declarator, getDeclarationRange(declarator, D),
                     "SimpleDeclaration", D)
      ELSE declarator

\* TraverseStmt that marks no declaration.
noticeNoDecls(st, decls) == st

RECURSIVE noticeDecls(_, _)
\* BuildTreeVisitor::TraverseStmt(S) before it descends into S: the
\* declarations of a DeclStmt leave their semicolon to the statement.
noticeDecls(st, decls) ==
  IF decls = << >> THEN st
  ELSE noticeDecls(noticeDeclWithoutSemicolon(st, Head(decls)), Tail(decls))

\* BuildTrailingReturn that folds no declarator for the return type.
BuildTrailingReturnWithoutDeclarator(st, D, I) ==
  LET L == ast[D].typeLoc.chain[I]
      Return_ == getRangeOf(L.returnLoc)
      arrow == IF st.failure # NoFailure THEN st
               ELSE IF ~Return_.ok THEN Fail(st, Return_.msg)
               ELSE markChildTokenPtr(st, Return_.b - 1, "ArrowToken")
  IN  [st |-> IF arrow.failure # NoFailure THEN arrow
              ELSE foldNodeOver(Alloc(arrow, "TrailingReturnType"),
                                [ok |-> TRUE, b |-> Return_.b - 1, e |-> Return_.e],
                                Last(arrow) + 1, NullAST),
       node |-> Last(arrow) + 1]

\* BuildTrailingReturn: foldNode of the SimpleDeclarator of the return type
\* over ReturnDeclaratorRange, when there is one.
foldReturnDeclarator(st, ReturnDeclaratorRange) ==
  IF st.failure # NoFailure THEN st
  ELSE IF ~ReturnDeclaratorRange.ok THEN Fail(st, "End.isValid()")
  ELSE IF rangeIsValid(ReturnDeclaratorRange.r)
    THEN foldNew(st, getRangeOf(ReturnDeclaratorRange.r), "SimpleDeclarator", NullAST)
  ELSE st

\* BuildTrailingReturn: the arrow is the token before the return type
\* Return_, and is marked.
markArrow(st, Return_) ==
  IF st.failure # NoFailure THEN st
  ELSE IF ~Return_.ok THEN Fail(st, Return_.msg)
  ELSE IF Return_.b - 1 < 1 THEN Fail(st, "Arrow->kind() == tok::arrow")
  ELSE IF tokens[Return_.b - 1].kind # "arrow"
    THEN Fail(st, "Arrow->kind() == tok::arrow")
  ELSE markChildTokenPtr(st, Return_.b - 1, "ArrowToken")

\* BuildTrailingReturn: if (ReturnDeclarator) markChild(ReturnDeclarator,
\* TrailingReturnType_declarator).
markReturnDeclarator(st, ReturnDeclarator) ==
  IF ReturnDeclarator # 0
    THEN markChild(st, ReturnDeclarator, "TrailingReturnType_declarator")
  ELSE st

\* BuildTrailingReturn: foldNode of the new TrailingReturnType over the
\* arrow and the return type Return_; the result is the state and the node.
foldTrailingReturn(st, Return_) ==
  [st |-> IF st.failure # NoFailure THEN st
          ELSE foldNodeOver(Alloc(st, "TrailingReturnType"),
                            [ok |-> TRUE, b |-> Return_.b - 1, e |-> Return_.e],
                            Last(st) + 1, NullAST),
   node |-> Last(st) + 1]

\* BuildTrailingReturn for the return type Return_ whose declarator has the
\* range ReturnDeclaratorRange.
BuildTrailingReturnOver(st, ReturnDeclaratorRange, Return_) ==
  foldTrailingReturn(
    markReturnDeclarator(
      markArrow(foldReturnDeclarator(st, ReturnDeclaratorRange), Return_),
      IF ReturnDeclaratorRange.ok /\ rangeIsValid(ReturnDeclaratorRange.r)
        THEN Last(st) + 1 ELSE 0),
    Return_)

\* BuildTreeVisitor::BuildTrailingReturn(L), L the I-th type-location of
\* the declaration D: the builder after it, and the TrailingReturnType node.
BuildTrailingReturn(st, D, I) ==
  BuildTrailingReturnOver(
    st,
    getDeclaratorRange([chain |-> SubSeq(ast[D].typeLoc.chain, I + 1,
                                         Len(ast[D].typeLoc.chain)),
                        e |-> ast[D].typeLoc.chain[I].returnLoc.e],
                       InvalidLoc, SourceRange(InvalidLoc, InvalidLoc)),
    getRangeOf(ast[D].typeLoc.chain[I].returnLoc))

\* WalkUpFromFunctionProtoTypeLoc: markChild(TrailingReturnTokens,
\* ParametersAndQualifiers_trailingReturn).
markTrailingReturn(built) ==
  markChild(built.st, built.node, "ParametersAndQualifiers_trailingReturn")

\* WalkUpFromFunctionProtoTypeLoc(L), L the I-th type-location of the
\* declaration D.
WalkUpFromFunctionProtoTypeLoc(st, D, I) ==
  IF ~ast[D].typeLoc.chain[I].trailing THEN WalkUpFromFunctionTypeLoc(st, D, I)
  ELSE WalkUpFromFunctionTypeLoc(markTrailingReturn(BuildTrailingReturn(st, D, I)), D, I)

-----------------------------------------------------------------------------
(* Calls of overloaded operators.                                          *)

\* getOperatorNodeKind that takes `++` and `--` for prefix operators
\* whatever the number of arguments.
getOperatorNodeKindAlwaysPrefix(Op, NumArgs) ==
  CASE Op \in {"OO_EqualEqual", "OO_ExclaimEqual", "OO_Greater", "OO_GreaterEqual",
               "OO_Less", "OO_LessEqual", "OO_Spaceship",
               "OO_Equal", "OO_SlashEqual", "OO_PercentEqual", "OO_CaretEqual",
               "OO_PipeEqual", "OO_LessLessEqual", "OO_GreaterGreaterEqual",
               "OO_PlusEqual", "OO_MinusEqual", "OO_StarEqual", "OO_AmpEqual",
               "OO_Slash", "OO_Percent", "OO_Caret", "OO_Pipe", "OO_LessLess",
               "OO_GreaterGreater", "OO_AmpAmp", "OO_PipePipe", "OO_ArrowStar",
               "OO_Comma"} -> "BinaryOperatorExpression"
    [] Op \in {"OO_Tilde", "OO_Exclaim", "OO_PlusPlus", "OO_MinusMinus"} ->
         "PrefixUnaryOperatorExpression"
    [] Op \in {"OO_Plus", "OO_Minus", "OO_Star", "OO_Amp"} ->
         (CASE NumArgs = 1 -> "PrefixUnaryOperatorExpression"
            [] NumArgs = 2 -> "BinaryOperatorExpression"
            [] OTHER -> "llvm_unreachable")
    [] Op \in {"OO_New", "OO_Delete", "OO_Array_New", "OO_Array_Delete", "OO_Coawait",
               "OO_Call", "OO_Subscript", "OO_Arrow"} -> "UnknownExpression"
    [] OTHER -> "llvm_unreachable"

\* getOperatorNodeKind(E), E a CXXOperatorCallExpr with E.getOperator() = Op
\* and E.getNumArgs() = NumArgs.
getOperatorNodeKind(Op, NumArgs) ==
  CASE Op \in {"OO_EqualEqual", "OO_ExclaimEqual", "OO_Greater", "OO_GreaterEqual",
               "OO_Less", "OO_LessEqual", "OO_Spaceship",
               "OO_Equal", "OO_SlashEqual", "OO_PercentEqual", "OO_CaretEqual",
               "OO_PipeEqual", "OO_LessLessEqual", "OO_GreaterGreaterEqual",
               "OO_PlusEqual", "OO_MinusEqual", "OO_StarEqual", "OO_AmpEqual",
               "OO_Slash", "OO_Percent", "OO_Caret", "OO_Pipe", "OO_LessLess",
               "OO_GreaterGreater", "OO_AmpAmp", "OO_PipePipe", "OO_ArrowStar",
               "OO_Comma"} -> "BinaryOperatorExpression"
    [] Op \in {"OO_Tilde", "OO_Exclaim"} -> "PrefixUnaryOperatorExpression"
    [] Op \in {"OO_PlusPlus", "OO_MinusMinus"} ->
         (CASE NumArgs = 1 -> "PrefixUnaryOperatorExpression"
            [] NumArgs = 2 -> "PostfixUnaryOperatorExpression"
            [] OTHER -> "llvm_unreachable")
    [] Op \in {"OO_Plus", "OO_Minus", "OO_Star", "OO_Amp"} ->
         (CASE NumArgs = 1 -> "PrefixUnaryOperatorExpression"
            [] NumArgs = 2 -> "BinaryOperatorExpression"
            [] OTHER -> "llvm_unreachable")
    [] Op \in {"OO_New", "OO_Delete", "OO_Array_New", "OO_Array_Delete", "OO_Coawait",
               "OO_Call", "OO_Subscript", "OO_Arrow"} -> "UnknownExpression"
    [] OTHER -> "llvm_unreachable"

\* TraverseCXXOperatorCallExpr skipping no argument.
SkipsNoArgument(S) == {}

\* The arguments of the call S that TraverseCXXOperatorCallExpr does not
\* traverse: those whose source range is invalid.
SkippedArguments(S) ==
  {A \in {ast[S].kids[i] : i \in 1 .. Len(ast[S].kids)} :
     ~rangeIsValid(SourceRange(ast[A].b, ast[A].e))}

\* The loop of BuildTreeVisitor::TraverseCXXOperatorCallExpr(S) over
\* S->arguments(): an argument without source range is skipped, and must be
\* the second operand of a postfix operator.
TraverseArguments(st, S) ==
  IF st.failure # NoFailure THEN st
  ELSE IF /\ SkippedArguments(S) # {}
          /\ getOperatorNodeKind(ast[S].op, Len(ast[S].kids))
               # "PostfixUnaryOperatorExpression"
    THEN Fail(st, "getOperatorNodeKind(*S) == PostfixUnaryOperatorExpression")
  ELSE st

\* BuildTreeVisitor::WalkUpFromCXXOperatorCallExpr(S).
WalkUpFromCXXOperatorCallExpr(st, S) ==
  LET kind == getOperatorNodeKind(ast[S].op, Len(ast[S].kids))
      token == markChildToken(st, ast[S].operatorLoc, "OperatorExpression_operatorToken")
  IN  CASE kind = "BinaryOperatorExpression" ->
             foldNew(markExprChild(
                       markChildToken(
                         markExprChild(st, ast[S].kids[1],
                                       "BinaryOperatorExpression_leftHandSide"),
                         ast[S].operatorLoc, "OperatorExpression_operatorToken"),
                       ast[S].kids[2], "BinaryOperatorExpression_rightHandSide"),
                     getExprRange(S), "BinaryOperatorExpression", S)
        [] kind = "PrefixUnaryOperatorExpression" ->
             foldNew(markExprChild(token, ast[S].kids[1],
                                   "UnaryOperatorExpression_operand"),
                     getExprRange(S), "PrefixUnaryOperatorExpression", S)
        [] kind = "PostfixUnaryOperatorExpression" ->
             foldNew(markExprChild(token, ast[S].kids[1],
                                   "UnaryOperatorExpression_operand"),
                     getExprRange(S), "PostfixUnaryOperatorExpression", S)
        [] kind = "UnknownExpression" -> WalkUpFromExpr(st, S)
        [] OTHER ->
             Fail(st, "getOperatorNodeKind() does not return this value")

\* UnaryOperator::isPostfix(Op).
isPostfix(Op) == Op \in {"UO_PostInc", "UO_PostDec"}

\* WalkUpFromUnaryOperator that folds a prefix expression for every operator.
WalkUpFromPrefixUnaryOperator(st, S) ==
  foldNew(markExprChild(markChildToken(st, ast[S].operatorLoc,
                                       "OperatorExpression_operatorToken"),
                        ast[S].kids[1], "UnaryOperatorExpression_operand"),
          getExprRange(S), "PrefixUnaryOperatorExpression", S)

\* BuildTreeVisitor::WalkUpFromUnaryOperator(S).
WalkUpFromUnaryOperator(st, S) ==
  foldNew(markExprChild(markChildToken(st, ast[S].operatorLoc,
                                       "OperatorExpression_operatorToken"),
                        ast[S].kids[1], "UnaryOperatorExpression_operand"),
          getExprRange(S),
          IF isPostfix(ast[S].op) THEN "PostfixUnaryOperatorExpression"
          ELSE "PrefixUnaryOperatorExpression",
          S)

\* BuildTreeVisitor::WalkUpFromBinaryOperator(S).
WalkUpFromBinaryOperator(st, S) ==
  foldNew(markExprChild(
            markChildToken(
              markExprChild(st, ast[S].kids[1], "BinaryOperatorExpression_leftHandSide"),
              ast[S].operatorLoc, "OperatorExpression_operatorToken"),
            ast[S].kids[2], "BinaryOperatorExpression_rightHandSide"),
          getExprRange(S), "BinaryOperatorExpression", S)

-----------------------------------------------------------------------------
(* Nested name specifiers.  A NestedNameSpecifierLoc is a node of `ast`:   *)
(* `specifier` is the kind of its last specifier and `typeClass` the class *)
(* of the type it names, b the begin of the whole qualifier, localLoc the  *)
(* begin of its last specifier, e its last `::`, kids[1] its prefix and    *)
(* kids[2] the expression of a decltype.                                   *)

\* BuildTreeVisitor::getLocalSourceRange(NNSLoc).
getLocalSourceRange(NNSLoc) ==
  IF ast[NNSLoc].typeClass = "DependentTemplateSpecialization"
    THEN SourceRange(ast[NNSLoc].templateKwLoc, ast[NNSLoc].e)
  ELSE SourceRange(ast[NNSLoc].localLoc, ast[NNSLoc].e)

\* getNameSpecifierKind that does not look at the type of a type specifier.
getNameSpecifierKindOfAnyType(NNSLoc) ==
  CASE ast[NNSLoc].specifier = "Global" -> "GlobalNameSpecifier"
    [] ast[NNSLoc].specifier = "TypeSpecWithTemplate" -> "SimpleTemplateNameSpecifier"
    [] ast[NNSLoc].specifier = "Super" -> "report_fatal_error"
    [] OTHER -> "IdentifierNameSpecifier"

\* BuildTreeVisitor::getNameSpecifierKind(NNS).
getNameSpecifierKind(NNSLoc) ==
  CASE ast[NNSLoc].specifier = "Global" -> "GlobalNameSpecifier"
    [] ast[NNSLoc].specifier \in {"Namespace", "NamespaceAlias", "Identifier"} ->
         "IdentifierNameSpecifier"
    [] ast[NNSLoc].specifier = "TypeSpecWithTemplate" -> "SimpleTemplateNameSpecifier"
    [] ast[NNSLoc].specifier = "TypeSpec" ->
         (CASE ast[NNSLoc].typeClass = "" -> "assert(NNSType)"
            [] ast[NNSLoc].typeClass = "Decltype" -> "DecltypeNameSpecifier"
            [] ast[NNSLoc].typeClass \in {"TemplateSpecialization",
                                          "DependentTemplateSpecialization"} ->
                 "SimpleTemplateNameSpecifier"
            [] OTHER -> "IdentifierNameSpecifier")
    [] OTHER -> "report_fatal_error"

\* BuildTreeVisitor::BuildNameSpecifier(NNSLoc); the node it returns is the
\* last one allocated.  RecursiveASTVisitor::TraverseDecltypeTypeLoc
\* traverses the expression of the decltype, a name without qualifier.
BuildNameSpecifier(st, NNSLoc) ==
  LET whole == getRangeOf(getLocalSourceRange(NNSLoc))
      NameSpecifierTokens == IF whole.ok THEN TokRange(whole.b, whole.e - 1) ELSE whole
      kind == getNameSpecifierKind(NNSLoc)
  IN  IF st.failure # NoFailure THEN st
      ELSE IF NNSLoc = NullAST THEN Fail(st, "NNSLoc.hasQualifier()")
      ELSE IF ~whole.ok THEN Fail(st, whole.msg)
      ELSE CASE kind = "GlobalNameSpecifier" -> Alloc(st, "GlobalNameSpecifier")
             [] kind = "IdentifierNameSpecifier" ->
                  IF NameSpecifierTokens.e - NameSpecifierTokens.b # 1
                    THEN Fail(st, "NameSpecifierTokens.size() == 1")
                  ELSE foldNew(markChildTokenPtr(st, NameSpecifierTokens.b, "Unknown"),
                               NameSpecifierTokens, "IdentifierNameSpecifier", NullAST)
             [] kind = "SimpleTemplateNameSpecifier" ->
                  foldNew(st, NameSpecifierTokens, "SimpleTemplateNameSpecifier", NullAST)
             [] kind = "DecltypeNameSpecifier" ->
                  foldNew(WalkUpFromDeclRefExpr(st, ast[NNSLoc].kids[2]),
                          NameSpecifierTokens, "DecltypeNameSpecifier", NullAST)
             [] kind = "assert(NNSType)" -> Fail(st, "NNSType")
             [] kind = "report_fatal_error" ->
                  Fail(st, "We don't yet support the __super specifier")

RECURSIVE BuildNameSpecifiers(_, _)
\* The loop of TraverseNestedNameSpecifierLoc: from it back through its
\* prefixes.
BuildNameSpecifiers(st, it) ==
  IF it = NullAST \/ st.failure # NoFailure THEN st
  ELSE BuildNameSpecifiers(
         markChildToken(
           markChild(BuildNameSpecifier(st, it),
                     Last(BuildNameSpecifier(st, it)), "List_element"),
           ast[it].e, "List_delimiter"),
         ast[it].kids[1])

\* BuildTreeVisitor::TraverseNestedNameSpecifierLoc(QualifierLoc).
TraverseNestedNameSpecifierLoc(st, QualifierLoc) ==
  IF st.failure # NoFailure \/ QualifierLoc = NullAST THEN st
  ELSE LET built == BuildNameSpecifiers(st, QualifierLoc)
           R == getRangeOf(SourceRange(ast[QualifierLoc].b, ast[QualifierLoc].e))
       IN  IF built.failure # NoFailure THEN built
           ELSE IF ~R.ok THEN Fail(built, R.msg)
           ELSE foldNodeNNS(Alloc(built, "NestedNameSpecifier"), R.b, R.e,
                            Last(built) + 1, QualifierLoc)

-----------------------------------------------------------------------------
(* Templates, tags and namespaces.  A TemplateDecl has its templated       *)
(* declaration as kids[1] and the `template` keyword of its parameter list *)
(* at templateKwLoc; a TagDecl has the `template` keywords of its template *)
(* parameter lists in templateParameterLists.                              *)

\* BuildTreeVisitor::VisitDecl(D).
VisitDecl(st, D) == foldNew(st, getDeclarationRange(st, D), "UnknownDeclaration", D)

\* BuildTreeVisitor::foldTemplateDeclaration(Range, TemplateKW,
\* TemplatedDeclaration, From); the node it returns is the last allocated.
foldTemplateDeclaration(st, Range, TemplateKW, TemplatedDeclaration, From) ==
  IF st.failure # NoFailure THEN st
  ELSE IF TemplateKW = 0 \/ TemplateKW = End
    THEN Fail(st, "TemplateKW && TemplateKW->kind() == tok::kw_template")
  ELSE IF tokens[TemplateKW].kind # "kw_template"
    THEN Fail(st, "TemplateKW && TemplateKW->kind() == tok::kw_template")
  ELSE markChild(foldNew(markChildTokenPtr(st, TemplateKW, "IntroducerKeyword"),
                         Range, "TemplateDeclaration", From),
                 Last(st) + 1, "TemplateDeclaration_declaration")

\* BuildTreeVisitor::WalkUpFromTemplateDecl(S).
WalkUpFromTemplateDecl(st, S) ==
  IF findTokenFails(ast[S].templateKwLoc) THEN Fail(st, "It != LocationToToken.end()")
  ELSE foldTemplateDeclaration(st, getDeclarationRange(st, S),
                               findToken(ast[S].templateKwLoc),
                               getDeclarationRange(st, ast[S].kids[1]), S)

RECURSIVE ConsumeTemplateParameters(_, _, _, _)
\* handleFreeStandingTagDecl: ConsumeTemplateParameters on the first I
\* template parameter lists, the last of them first; each
\* TemplateDeclaration runs from its `template` keyword to the end of
\* DeclarationRange.
ConsumeTemplateParameters(st, lists, I, DeclarationRange) ==
  IF I = 0 \/ st.failure # NoFailure THEN st
  ELSE IF findTokenFails(lists[I]) THEN Fail(st, "It != LocationToToken.end()")
  ELSE ConsumeTemplateParameters(
         foldTemplateDeclaration(st, TokRange(findToken(lists[I]), DeclarationRange.e),
                                 findToken(lists[I]), DeclarationRange, NullAST),
         lists, I - 1, DeclarationRange)

\* BuildTreeVisitor::handleFreeStandingTagDecl(C).
handleFreeStandingTagDecl(st, C) ==
  LET DeclarationRange == getDeclarationRange(st, C)
      Result == foldNew(st, DeclarationRange, "SimpleDeclaration", NullAST)
  IN  IF st.failure # NoFailure THEN st
      ELSE IF ~ast[C].isFreeStanding THEN Fail(st, "C->isFreeStanding()")
      ELSE IF Result.failure # NoFailure THEN Result
      ELSE ConsumeTemplateParameters(
             IF ast[C].kind = "ClassTemplatePartialSpecializationDecl"
               THEN ConsumeTemplateParameters(Result, << ast[C].templateKwLoc >>, 1,
                                              DeclarationRange)
             ELSE Result,
             ast[C].templateParameterLists, Len(ast[C].templateParameterLists),
             DeclarationRange)

\* TreeBuilder::getTemplateRange(D).
getTemplateRange(st, D) ==
  maybeAppendSemicolon(st, getRangeOf(SourceRange(ast[D].b, ast[D].e)), D)

\* BuildTreeVisitor::foldExplicitTemplateInstantiation(Range, ExternKW,
\* TemplateKW, InnerDeclaration, From).
foldExplicitTemplateInstantiation(st, Range, ExternKW, TemplateKW, InnerDeclaration, From) ==
  IF st.failure # NoFailure THEN st
  ELSE IF ExternKW # 0 /\ (ExternKW = End \/ tokens[ExternKW].kind # "kw_extern")
    THEN Fail(st, "!ExternKW || ExternKW->kind() == tok::kw_extern")
  ELSE IF TemplateKW = 0 \/ TemplateKW = End
    THEN Fail(st, "TemplateKW && TemplateKW->kind() == tok::kw_template")
  ELSE IF tokens[TemplateKW].kind # "kw_template"
    THEN Fail(st, "TemplateKW && TemplateKW->kind() == tok::kw_template")
  ELSE foldNew(markChild(markChildTokenPtr(markChildTokenPtr(st, ExternKW, "ExternKeyword"),
                                           TemplateKW, "IntroducerKeyword"),
                         InnerDeclaration, "ExplicitTemplateInstantiation_declaration"),
               Range, "ExplicitTemplateInstantiation", From)

\* TraverseClassTemplateSpecializationDecl that takes an explicit
\* specialization for an explicit instantiation.
TraverseAnyClassTemplateSpecializationDecl(st, C) ==
  LET declared == handleFreeStandingTagDecl(st, C) IN
  IF declared.failure # NoFailure THEN declared
  ELSE foldExplicitTemplateInstantiation(
         declared, getTemplateRange(declared, C), findToken(ast[C].externLoc),
         findToken(ast[C].templateKwLoc), Last(declared), C)

\* TraverseClassTemplateSpecializationDecl, after handleFreeStandingTagDecl
\* has returned the last node of declared.
foldInstantiationOf(declared, C) ==
  IF declared.failure # NoFailure THEN declared
  ELSE IF declared.nodes[Last(declared)].kind # "SimpleDeclaration"
    THEN Fail(declared, "cast<Ty>() argument of incompatible type!")
  ELSE IF findTokenFails(ast[C].externLoc) \/ findTokenFails(ast[C].templateKwLoc)
    THEN Fail(declared, "It != LocationToToken.end()")
  ELSE foldExplicitTemplateInstantiation(
         declared, getTemplateRange(declared, C), findToken(ast[C].externLoc),
         findToken(ast[C].templateKwLoc), Last(declared), C)

\* BuildTreeVisitor::TraverseClassTemplateSpecializationDecl(C), after
\* RecursiveASTVisitor::TraverseClassTemplateSpecializationDecl(C) has
\* returned: that walks up from an explicit specialization and not from an
\* explicit instantiation.
TraverseClassTemplateSpecializationDecl(st, C) ==
  IF st.failure # NoFailure THEN st
  ELSE IF ast[C].isExplicitSpecialization THEN st
  ELSE foldInstantiationOf(handleFreeStandingTagDecl(st, C), C)

\* BuildTreeVisitor::WalkUpFromTagDecl(C).
WalkUpFromTagDecl(st, C) ==
  IF st.failure # NoFailure THEN st
  ELSE IF ~ast[C].isFreeStanding
    THEN IF ast[C].templateParameterLists # << >>
           THEN Fail(st, "C->getNumTemplateParameterLists() == 0")
         ELSE st
  ELSE handleFreeStandingTagDecl(st, C)

\* WalkUpFromNamespaceDecl that folds a nested namespace definition too.
WalkUpFromAnyNamespaceDecl(st, S) ==
  LET Tokens == getDeclarationRange(st, S) IN
  IF st.failure # NoFailure THEN st
  ELSE IF ~Tokens.ok THEN Fail(st, Tokens.msg)
  ELSE foldNew(st, Tokens, "NamespaceDefinition", S)

\* BuildTreeVisitor::WalkUpFromNamespaceDecl(S).
WalkUpFromNamespaceDecl(st, S) ==
  LET Tokens == getDeclarationRange(st, S) IN
  IF st.failure # NoFailure THEN st
  ELSE IF ~Tokens.ok THEN Fail(st, Tokens.msg)
  ELSE IF tokens[Tokens.b].kind = "coloncolon" THEN st
  ELSE foldNew(st, Tokens, "NamespaceDefinition", S)

-----------------------------------------------------------------------------
(* Well-formed programs.  A program is a nest of declarations and          *)
(* statements; the parser lays it out as tokens and an AST, and            *)
(* RecursiveASTVisitor walks the AST in post-order.  The size of a program *)
(* is the number of its declarations and statements, the body of a         *)
(* function not counted.                                                   *)

LeafStmts == {"NullStmt", "DeclRefExpr", "ReturnStmt", "DeclStmt"}

LoopStmts == {"IfStmt", "WhileStmt", "ForStmt", "SwitchStmt"}

RECURSIVE StmtsOfSize(_), StmtSeqsOfSize(_)
\* The statements of n nodes: `;`, `x;`, `return;`, `int a;`, `{ ... }`,
\* `if (1) S`, `if (1) S else S`, `while (1) S`, `for (;;) S`, `switch (1) S`.
StmtsOfSize(n) ==
  IF n < 1 THEN {}
  ELSE (IF n = 1 THEN {[k |-> l, kids |-> << >>] : l \in LeafStmts} ELSE {})
       \cup {[k |-> w, kids |-> << s >>] : w \in LoopStmts, s \in StmtsOfSize(n - 1)}
       \cup UNION {{[k |-> "IfStmt", kids |-> << s, t >>] :
                      s \in StmtsOfSize(i), t \in StmtsOfSize(n - 1 - i)} :
                   i \in 1 .. (n - 2)}
       \cup {[k |-> "CompoundStmt", kids |-> q] : q \in StmtSeqsOfSize(n - 1)}

\* The sequences of statements of n nodes in all.
StmtSeqsOfSize(n) ==
  IF n = 0 THEN {<< >>}
  ELSE UNION {{<< s >> \o q : s \in StmtsOfSize(i), q \in StmtSeqsOfSize(n - i)} :
              i \in 1 .. n}

\* The top-level declarations of n nodes: `;` and `void f() { ... }`.
DeclsOfSize(n) ==
  IF n < 1 THEN {}
  ELSE (IF n = 1 THEN {[k |-> "EmptyDecl", kids |-> << >>]} ELSE {})
       \cup {[k |-> "FunctionDecl", kids |-> q] : q \in StmtSeqsOfSize(n - 1)}

RECURSIVE TUsOfSize(_)
\* The translation units of n nodes in all.
TUsOfSize(n) ==
  IF n = 0 THEN {<< >>}
  ELSE UNION {{<< d >> \o q : d \in DeclsOfSize(i), q \in TUsOfSize(n - i)} :
              i \in 1 .. n}

\* A node of the AST.
ASTNode(kind, b, e, kids) ==
  [kind |-> kind, b |-> b, e |-> e, kids |-> kids, isDecl |-> FALSE, ctx |-> 0,
   nameLoc |-> InvalidLoc, elseLoc |-> InvalidLoc, qualifier |-> NullAST,
   templateKwLoc |-> InvalidLoc, tagLoc |-> InvalidLoc,
   op |-> "OO_None", operatorLoc |-> InvalidLoc,
   specifier |-> "", typeClass |-> "", localLoc |-> InvalidLoc,
   isFreeStanding |-> FALSE, templateParameterLists |-> << >>, isImplicit |-> FALSE,
   isExplicitSpecialization |-> FALSE, externLoc |-> InvalidLoc,
   typeLoc |-> [chain |-> << >>, e |-> InvalidLoc]]

\* A type-location: its kind, where its own tokens begin (getLParenLoc() of
\* a function or parenthesized type) and where the type-location ends
\* (getEndLoc()); its right parenthesis; and for a function type whether it
\* has a trailing return, its parameters and the range of its return type.
TypeLocNode(kind, b, e) ==
  [kind |-> kind, b |-> b, e |-> e, rparen |-> InvalidLoc, trailing |-> FALSE,
   params |-> << >>, returnLoc |-> [b |-> InvalidLoc, e |-> InvalidLoc]]

\* A call the visitor makes on the i-th type-location of the node n of the
\* AST.
CallOn(h, n, i) == [h |-> h, n |-> n, i |-> i]

\* A call the visitor makes on the node n of the AST, or on the first
\* type-location of n.
Call(h, n) == CallOn(h, n, 1)

\* The layout of a piece of a program: its tokens, its AST nodes in
\* post-order (the root last), the visitor calls, and the root's end.
Piece(toks, ns, steps, rt, e) ==
  [toks |-> toks, nodes |-> ns, steps |-> steps, root |-> rt, e |-> e]

\* No piece at all, after a piece that ends at e.
NoPiece(rt, e) == Piece(<< >>, << >>, << >>, rt, e)

\* The pieces first and rest, one after the other; root is their roots.
Join(first, rest) ==
  Piece(first.toks \o rest.toks, first.nodes \o rest.nodes,
        first.steps \o rest.steps, << first.root >> \o rest.root, rest.e)

\* The AST nodes and visitor calls of first, then those of rest.
Kids(first, rest) ==
  Piece(<< >>, first.nodes \o rest.nodes, first.steps \o rest.steps, NullAST, rest.e)

\* A node with the tokens toks, over the pieces of its children: it comes
\* after them in post-order, and the visitor walks up from it last.
Parent(toks, kids, node, id) ==
  Piece(toks, Append(kids.nodes, node),
        Append(kids.steps, Call("WalkUpFrom", id)), id, node.e)

\* A statement of one AST node and no children.
LeafPiece(toks, node, id) == Parent(toks, NoPiece(<< >>, InvalidLoc), node, id)

\* The condition `1` at token p, as AST node id.
CondPiece(p, id) ==
  LeafPiece(<< "numeric_constant" >>,
            ASTNode("IntegerLiteral", LocOfIndex(p), LocOfIndex(p), << >>), id)

\* `int a;` after pos tokens: a VarDecl of type int in a DeclStmt.
DeclStmtPiece(pos, id0, ctx) ==
  Piece(<< "kw_int", "identifier", "semi" >>,
        << [ASTNode("VarDecl", LocOfIndex(pos + 1), LocOfIndex(pos + 2), << NullAST >>)
              EXCEPT !.isDecl = TRUE, !.ctx = ctx, !.nameLoc = LocOfIndex(pos + 2),
                     !.typeLoc = [chain |-> << TypeLocNode("Builtin", LocOfIndex(pos + 1),
                                                           LocOfIndex(pos + 1)) >>,
                                  e |-> LocOfIndex(pos + 1)]],
           ASTNode("DeclStmt", LocOfIndex(pos + 1), LocOfIndex(pos + 3), << id0 + 1 >>) >>,
        << Call("TraverseStmt", id0 + 2), Call("WalkUpFrom", id0 + 1),
           Call("WalkUpFrom", id0 + 2) >>,
        id0 + 2, LocOfIndex(pos + 3))

\* `{ body }` after pos tokens.
CompoundPiece(body, pos, id0) ==
  Parent(<< "l_brace" >> \o body.toks \o << "r_brace" >>, body,
         ASTNode("CompoundStmt", LocOfIndex(pos + 1),
                 LocOfIndex(pos + Len(body.toks) + 2), body.root),
         id0 + Len(body.nodes) + 1)

\* `while (1) body` and `switch (1) body` after pos tokens.
LoopPiece(k, kw, cond, body, pos, id0) ==
  Parent(<< kw, "l_paren" >> \o cond.toks \o << "r_paren" >> \o body.toks,
         Kids(cond, body),
         ASTNode(k, LocOfIndex(pos + 1), body.e, << cond.root, body.root >>),
         id0 + 1 + Len(body.nodes) + 1)

\* `for (;;) body` after pos tokens.
ForPiece(body, pos, id0) ==
  Parent(<< "kw_for", "l_paren", "semi", "semi", "r_paren" >> \o body.toks, body,
         ASTNode("ForStmt", LocOfIndex(pos + 1), body.e,
                 << NullAST, NullAST, NullAST, body.root >>),
         id0 + Len(body.nodes) + 1)

\* `if (1) then` and `if (1) then else else_` after pos tokens.
IfPiece(cond, then, hasElse, else, pos, id0) ==
  Parent(<< "kw_if", "l_paren" >> \o cond.toks \o << "r_paren" >> \o then.toks
           \o (IF hasElse THEN << "kw_else" >> \o else.toks ELSE << >>),
         Kids(cond, Kids(then, else)),
         [ASTNode("IfStmt", LocOfIndex(pos + 1), else.e,
                  << cond.root, then.root, else.root >>)
            EXCEPT !.elseLoc = IF hasElse THEN LocOfIndex(pos + 5 + Len(then.toks))
                              ELSE InvalidLoc],
         id0 + 1 + Len(then.nodes) + Len(else.nodes) + 1)

\* `void f() body` after pos tokens.
FunctionPiece(body, pos, id0) ==
  Piece(<< "kw_void", "identifier", "l_paren", "r_paren" >> \o body.toks,
        Append(body.nodes,
               [ASTNode("FunctionDecl", LocOfIndex(pos + 1), body.e, << body.root >>)
                  EXCEPT !.isDecl = TRUE, !.nameLoc = LocOfIndex(pos + 2),
                         !.typeLoc =
                           [chain |-> << [TypeLocNode("FunctionProto", LocOfIndex(pos + 3),
                                                      LocOfIndex(pos + 4))
                                            EXCEPT !.rparen = LocOfIndex(pos + 4)],
                                         TypeLocNode("Builtin", LocOfIndex(pos + 1),
                                                     LocOfIndex(pos + 1)) >>,
                            e |-> LocOfIndex(pos + 4)]]),
        << Call("WalkUpFromFunctionProtoTypeLoc", id0 + Len(body.nodes) + 1) >>
          \o body.steps \o << Call("WalkUpFrom", id0 + Len(body.nodes) + 1) >>,
        id0 + Len(body.nodes) + 1, body.e)

RECURSIVE StmtPiece(_, _, _, _), StmtSeqPiece(_, _, _, _), ElsePiece(_, _, _, _, _),
          StmtSeqAfter(_, _, _, _, _)
\* The statement s laid out after pos tokens and id0 AST nodes, in the
\* function whose context is ctx.
StmtPiece(s, pos, id0, ctx) ==
  CASE s.k = "NullStmt" ->
         LeafPiece(<< "semi" >>,
                   ASTNode("NullStmt", LocOfIndex(pos + 1), LocOfIndex(pos + 1), << >>),
                   id0 + 1)
    [] s.k = "DeclRefExpr" ->
         LeafPiece(<< "identifier", "semi" >>,
                   [ASTNode("DeclRefExpr", LocOfIndex(pos + 1), LocOfIndex(pos + 1), << >>)
                      EXCEPT !.nameLoc = LocOfIndex(pos + 1)],
                   id0 + 1)
    [] s.k = "ReturnStmt" ->
         LeafPiece(<< "kw_return", "semi" >>,
                   ASTNode("ReturnStmt", LocOfIndex(pos + 1), LocOfIndex(pos + 1),
                           << NullAST >>),
                   id0 + 1)
    [] s.k = "DeclStmt" -> DeclStmtPiece(pos, id0, ctx)
    [] s.k = "CompoundStmt" ->
         CompoundPiece(StmtSeqPiece(s.kids, pos + 1, id0, ctx), pos, id0)
    [] s.k = "WhileStmt" ->
         LoopPiece(s.k, "kw_while", CondPiece(pos + 3, id0 + 1),
                   StmtPiece(s.kids[1], pos + 4, id0 + 1, ctx), pos, id0)
    [] s.k = "SwitchStmt" ->
         LoopPiece(s.k, "kw_switch", CondPiece(pos + 3, id0 + 1),
                   StmtPiece(s.kids[1], pos + 4, id0 + 1, ctx), pos, id0)
    [] s.k = "ForStmt" ->
         ForPiece(StmtPiece(s.kids[1], pos + 5, id0, ctx), pos, id0)
    [] s.k = "IfStmt" ->
         ElsePiece(StmtPiece(s.kids[1], pos + 4, id0 + 1, ctx), s, pos, id0, ctx)

\* The if statement s whose then branch is laid out as then.
ElsePiece(then, s, pos, id0, ctx) ==
  IF Len(s.kids) = 2
    THEN IfPiece(CondPiece(pos + 3, id0 + 1), then, TRUE,
                 StmtPiece(s.kids[2], pos + 5 + Len(then.toks),
                           id0 + 1 + Len(then.nodes), ctx),
                 pos, id0)
  ELSE IfPiece(CondPiece(pos + 3, id0 + 1), then, FALSE, NoPiece(NullAST, then.e),
               pos, id0)

\* The statements q laid out one after the other.
StmtSeqPiece(q, pos, id0, ctx) ==
  IF q = << >> THEN NoPiece(<< >>, InvalidLoc)
  ELSE StmtSeqAfter(StmtPiece(Head(q), pos, id0, ctx), q, pos, id0, ctx)

\* The statements q, the first of them laid out as first.
StmtSeqAfter(first, q, pos, id0, ctx) ==
  Join(first, StmtSeqPiece(Tail(q), pos + Len(first.toks), id0 + Len(first.nodes), ctx))

\* The top-level declaration d laid out after pos tokens and id0 AST nodes.
DeclPiece(d, pos, id0) ==
  IF d.k = "EmptyDecl"
    THEN LeafPiece(<< "semi" >>,
                   [ASTNode("EmptyDecl", LocOfIndex(pos + 1), LocOfIndex(pos + 1), << >>)
                      EXCEPT !.isDecl = TRUE],
                   id0 + 1)
  ELSE FunctionPiece(StmtPiece([k |-> "CompoundStmt", kids |-> d.kids],
                               pos + 4, id0, LocOfIndex(pos + 1)),
                     pos, id0)

RECURSIVE TUPiece(_, _, _), TUAfter(_, _, _, _)
\* The translation unit tu laid out after pos tokens and id0 AST nodes.
TUPiece(tu, pos, id0) ==
  IF tu = << >> THEN NoPiece(<< >>, InvalidLoc)
  ELSE TUAfter(DeclPiece(Head(tu), pos, id0), tu, pos, id0)

\* The translation unit tu, the first declaration laid out as first.
TUAfter(first, tu, pos, id0) ==
  Join(first, TUPiece(Tail(tu), pos + Len(first.toks), id0 + Len(first.nodes)))

\* The expanded tokens of the token kinds, and the eof that ends them.
TokensOf(kinds) ==
  [i \in 1 .. (Len(kinds) + 1) |->
     [kind |-> IF i = Len(kinds) + 1 THEN "eof" ELSE kinds[i], loc |-> LocOfIndex(i)]]

-----------------------------------------------------------------------------
(* Steps.                                                                  *)

NoOp == [op |-> "none", b |-> 0, e |-> 0, role |-> "", node |-> 0]

\* The state after a call that left the builder in state st.
\* An aborted call is remembered by its name alone.
Commit(st, op) ==
  /\ nodes' = st.nodes
  /\ Trees' = st.Trees
  /\ Mapping' = st.Mapping
  /\ DeclsWithoutSemicolons' = st.DeclsWithoutSemicolons
  /\ failure' = st.failure
  /\ lastOp' = IF st.failure = NoFailure THEN op ELSE [NoOp EXCEPT !.op = op.op]
  /\ UNCHANGED << Input, Parsed >>

\* The role a client of the builder hands to the mark calls below.
ClientRoles == {"IntroducerKeyword"}

\* A client calls foldNode over the tokens [b, e) with a new node.
\* The AST nodes, and the qualifiers, a client folds a node for, and none.
ClientKeys == {NullAST} \cup (1 .. MaxKeys)

FoldNode(b, e, From) ==
  /\ phase = "building"
  /\ Len(nodes) - NumTokens < MaxFolds
  /\ LET st == foldNode(Alloc(Cur, "UnknownStatement"), b, e, Len(nodes) + 1, From)
     IN  /\ Commit(st, [NoOp EXCEPT !.op = "foldNode", !.b = b, !.e = e,
                                    !.node = Len(nodes) + 1])
         /\ phase' = IF st.failure = NoFailure THEN "building" ELSE "aborted"
  /\ UNCHANGED << tokens, unspelled, root, ast, todo >>

FoldNodeNNS(b, e, From) ==
  /\ phase = "building"
  /\ Len(nodes) - NumTokens < MaxFolds
  /\ LET st == foldNodeNNS(Alloc(Cur, "NestedNameSpecifier"), b, e, Len(nodes) + 1, From)
     IN  /\ Commit(st, [NoOp EXCEPT !.op = "foldNode", !.b = b, !.e = e,
                                    !.node = Len(nodes) + 1])
         /\ phase' = IF st.failure = NoFailure THEN "building" ELSE "aborted"
  /\ UNCHANGED << tokens, unspelled, root, ast, todo >>

\* Pending.assignRole over the tokens [b, e).
AssignRole(b, e, R) ==
  /\ phase = "building"
  /\ LET st == assignRole(Cur, b, e, R)
     IN  /\ Commit(st, [NoOp EXCEPT !.op = "assignRole", !.b = b, !.e = e, !.role = R])
         /\ phase' = IF st.failure = NoFailure THEN "building" ELSE "aborted"
  /\ UNCHANGED << tokens, unspelled, root, ast, todo >>

\* A client calls markChild with a node it folded before.
MarkChildAST(N, R) ==
  /\ phase = "building"
  /\ LET st == markChildAST(Cur, N, R)
     IN  /\ Commit(st, [NoOp EXCEPT !.op = "markChild", !.node = N, !.role = R])
         /\ phase' = IF st.failure = NoFailure THEN "building" ELSE "aborted"
  /\ UNCHANGED << tokens, unspelled, root, ast, todo >>

MarkChild(N, R) ==
  /\ phase = "building"
  /\ LET st == markChild(Cur, N, R)
     IN  /\ Commit(st, [NoOp EXCEPT !.op = "markChild", !.node = N, !.role = R])
         /\ phase' = IF st.failure = NoFailure THEN "building" ELSE "aborted"
  /\ UNCHANGED << tokens, unspelled, root, ast, todo >>

\* TreeBuilder::finalize(), first half: the fold of the TranslationUnit.
FinalizeFold ==
  /\ phase = "building"
  /\ todo = << >>
  /\ LET st == finalizeFold(Cur)
     IN  /\ Commit(st, [NoOp EXCEPT !.op = "finalize", !.b = 1, !.e = Len(tokens),
                                    !.node = Len(nodes) + 1])
         /\ phase' = IF st.failure = NoFailure THEN "folded" ELSE "aborted"
  /\ UNCHANGED << tokens, unspelled, root, ast, todo >>

\* TreeBuilder::finalize(), second half: Pending.finalize() gives the root.
FinalizeRoot ==
  /\ phase = "folded"
  /\ LET st == ForestFinalize(Cur)
     IN  /\ Commit(st, [NoOp EXCEPT !.op = "Forest::finalize"])
         /\ phase' = IF st.failure = NoFailure THEN "done" ELSE "aborted"
         /\ root' = IF st.failure = NoFailure THEN ForestRoot(Cur) ELSE root
  /\ UNCHANGED << tokens, unspelled, ast, todo >>

\* The token buffer of n tokens and eof, and the builder constructed on it.
InitBuilder(toks, unsp) ==
  /\ tokens = toks
  /\ unspelled = unsp
  /\ nodes = ForestInit(toks, unsp).nodes
  /\ Trees = ForestInit(toks, unsp).Trees
  /\ Mapping = [Nodes |-> << >>, NNSNodes |-> << >>]
  /\ DeclsWithoutSemicolons = {}
  /\ failure = NoFailure
  /\ phase = "building"
  /\ root = 0
  /\ lastOp = NoOp
  /\ Parsed = NoResult

\* n identifier tokens followed by eof.
PlainTokens(n) ==
  [i \in 1 .. (n + 1) |->
     [kind |-> IF i = n + 1 THEN "eof" ELSE "identifier", loc |-> LocOfIndex(i)]]

Init ==
  /\ \E n \in 0 .. MaxTokens :
       InitBuilder(PlainTokens(n), {1} \cap (1 .. n))
  /\ ast = << >>
  /\ todo = << >>
  /\ Input = << >>

Next ==
  \/ \E b \in 1 .. NumTokens : \E e \in (b + 1) .. (NumTokens + 1) :
       FoldNode(b, e, NullAST)
  \/ \E b \in 1 .. NumTokens : \E e \in (b + 1) .. (NumTokens + 1) :
       \E R \in ClientRoles : AssignRole(b, e, R)
  \/ \E N \in (NumTokens + 1) .. Len(nodes) : \E R \in ClientRoles : MarkChild(N, R)
  \/ FinalizeFold
  \/ FinalizeRoot

Spec == Init /\ [][Next]_vars

\* A client that folds nodes for AST nodes and for qualifiers, and marks
\* the nodes of AST nodes.
NextMapping ==
  \/ \E b \in 1 .. NumTokens : \E e \in (b + 1) .. (NumTokens + 1) :
       \E From \in ClientKeys : FoldNode(b, e, From)
  \/ \E b \in 1 .. NumTokens : \E e \in (b + 1) .. (NumTokens + 1) :
       \E From \in ClientKeys \ {NullAST} : FoldNodeNNS(b, e, From)
  \/ \E N \in ClientKeys \ {NullAST} : \E R \in ClientRoles : MarkChildAST(N, R)
  \/ FinalizeFold
  \/ FinalizeRoot

SpecMapping == Init /\ [][NextMapping]_vars

-----------------------------------------------------------------------------
(* buildSyntaxTree on a well-formed program: BuildTreeVisitor::TraverseAST *)
(* makes the visitor calls of `todo` in order, then finalize() runs.       *)

\* The most declarations and statements of a program.
MaxProgram == 4

\* The head of `todo` is the call h on a node of one of the kinds.
Calls(h, kinds) ==
  /\ phase = "building"
  /\ todo # << >>
  /\ Head(todo).h = h
  /\ ast[Head(todo).n].kind \in kinds

\* The visitor call named op returned and left the builder in state st.
Return(st, op) ==
  \E after \in {st} :
    /\ Commit(after, [NoOp EXCEPT !.op = op, !.node = Head(todo).n])
    /\ phase' = IF after.failure = NoFailure THEN "building" ELSE "aborted"
    /\ todo' = Tail(todo)
    /\ UNCHANGED << tokens, unspelled, root, ast >>

\* BuildTreeVisitor::TraverseStmt(S) on a DeclStmt, before its children.
TraverseStmt ==
  /\ Calls("TraverseStmt", {"DeclStmt"})
  /\ Return(noticeDecls(Cur, ast[Head(todo).n].kids), "TraverseStmt")

TraverseCompoundStmt ==
  /\ Calls("WalkUpFrom", {"CompoundStmt"})
  /\ Return(WalkUpFromCompoundStmt(Cur, Head(todo).n), "WalkUpFromCompoundStmt")

TraverseIfStmt ==
  /\ Calls("WalkUpFrom", {"IfStmt"})
  /\ Return(WalkUpFromIfStmt(Cur, Head(todo).n), "WalkUpFromIfStmt")

TraverseWhileStmt ==
  /\ Calls("WalkUpFrom", {"WhileStmt"})
  /\ Return(WalkUpFromWhileStmt(Cur, Head(todo).n), "WalkUpFromWhileStmt")

TraverseForStmt ==
  /\ Calls("WalkUpFrom", {"ForStmt"})
  /\ Return(WalkUpFromForStmt(Cur, Head(todo).n), "WalkUpFromForStmt")

TraverseSwitchStmt ==
  /\ Calls("WalkUpFrom", {"SwitchStmt"})
  /\ Return(WalkUpFromSwitchStmt(Cur, Head(todo).n), "WalkUpFromSwitchStmt")

TraverseReturnStmt ==
  /\ Calls("WalkUpFrom", {"ReturnStmt"})
  /\ Return(WalkUpFromReturnStmt(Cur, Head(todo).n), "WalkUpFromReturnStmt")

TraverseNullStmt ==
  /\ Calls("WalkUpFrom", {"NullStmt"})
  /\ Return(WalkUpFromNullStmt(Cur, Head(todo).n), "WalkUpFromNullStmt")

TraverseDeclStmt ==
  /\ Calls("WalkUpFrom", {"DeclStmt"})
  /\ Return(WalkUpFromDeclStmt(Cur, Head(todo).n), "WalkUpFromDeclStmt")

TraverseDeclRefExpr ==
  /\ Calls("WalkUpFrom", {"DeclRefExpr"})
  /\ Return(WalkUpFromDeclRefExpr(Cur, Head(todo).n), "WalkUpFromDeclRefExpr")

TraverseMemberExpr ==
  /\ Calls("WalkUpFrom", {"MemberExpr"})
  /\ Return(WalkUpFromMemberExpr(Cur, Head(todo).n), "WalkUpFromMemberExpr")

TraverseCXXThisExpr ==
  /\ Calls("WalkUpFrom", {"CXXThisExpr"})
  /\ Return(WalkUpFromCXXThisExpr(Cur, Head(todo).n), "WalkUpFromCXXThisExpr")

TraverseIntegerLiteral ==
  /\ Calls("WalkUpFrom", {"IntegerLiteral"})
  /\ Return(WalkUpFromIntegerLiteral(Cur, Head(todo).n), "WalkUpFromIntegerLiteral")

\* TraverseVarDecl and TraverseFunctionDecl end in WalkUpFromDeclaratorDecl.
TraverseDeclaratorDecl ==
  /\ Calls("WalkUpFrom", DeclaratorDeclKinds)
  /\ Return(processDeclaratorAndDeclaration(Cur, Head(todo).n),
            "WalkUpFromDeclaratorDecl")

TraverseEmptyDecl ==
  /\ Calls("WalkUpFrom", {"EmptyDecl"})
  /\ Return(WalkUpFromEmptyDecl(Cur, Head(todo).n), "WalkUpFromEmptyDecl")

TraverseFunctionProtoTypeLoc ==
  /\ Calls("WalkUpFromFunctionProtoTypeLoc", DeclaratorDeclKinds)
  /\ Return(WalkUpFromFunctionProtoTypeLoc(Cur, Head(todo).n, Head(todo).i),
            "WalkUpFromFunctionProtoTypeLoc")

\* BuildTreeVisitor::TraverseParenTypeLoc(L), up to the traversal of the
\* inner type-location: it walks up from L first.
TraverseParenTypeLoc ==
  /\ Calls("WalkUpFromParenTypeLoc", DeclaratorDeclKinds)
  /\ Return(WalkUpFromParenTypeLoc(Cur, Head(todo).n, Head(todo).i),
            "WalkUpFromParenTypeLoc")

\* A well-formed program of at most MaxProgram nodes, parsed.
InitStmt ==
  \E n \in 0 .. MaxProgram : \E tu \in TUsOfSize(n) :
    \E parsed \in {TUPiece(tu, 0, 0)} :
      /\ InitBuilder(TokensOf(parsed.toks), {})
      /\ ast = parsed.nodes
      /\ todo = parsed.steps
      /\ Input = << >>

NextStmt ==
  \/ TraverseStmt
  \/ TraverseCompoundStmt
  \/ TraverseIfStmt
  \/ TraverseWhileStmt
  \/ TraverseForStmt
  \/ TraverseSwitchStmt
  \/ TraverseReturnStmt
  \/ TraverseNullStmt
  \/ TraverseDeclStmt
  \/ TraverseDeclRefExpr
  \/ TraverseIntegerLiteral
  \/ TraverseDeclaratorDecl
  \/ TraverseEmptyDecl
  \/ TraverseFunctionProtoTypeLoc
  \/ FinalizeFold
  \/ FinalizeRoot

SpecStmt == InitStmt /\ [][NextStmt]_vars

-----------------------------------------------------------------------------
(* buildSyntaxTree on expressions and declarations: one function or one    *)
(* group of declarations per program.                                      *)

\* The name `a` at token p, as AST node id.
NamePiece(p, id) ==
  LeafPiece(<< "identifier" >>,
            [ASTNode("DeclRefExpr", LocOfIndex(p), LocOfIndex(p), << >>)
               EXCEPT !.nameLoc = LocOfIndex(p)], id)

\* The second operand of a postfix `++` or `--`: an IntegerLiteral that
\* is not written in the source, as AST node id.
PhantomPiece(id) ==
  LeafPiece(<< >>, ASTNode("IntegerLiteral", InvalidLoc, InvalidLoc, << >>), id)

\* The expression in statement position: `expr ;`.
ExprStmtPiece(expr) ==
  Piece(expr.toks \o << "semi" >>, expr.nodes, expr.steps, << expr.root >>, expr.e)

\* `void f() { stmt }`, the whole translation unit.
FunctionOf(stmt) == FunctionPiece(CompoundPiece(stmt, 4, 0), 0, 0)

\* The calls of overloaded operators that can be written: `a OP b`,
\* `OP a`, `a OP`, `a ( b )` and `a [ b ]`.
OperatorCalls ==
  {[op |-> o, form |-> "binary"] :
     o \in {"OO_EqualEqual", "OO_ExclaimEqual", "OO_Greater", "OO_GreaterEqual",
            "OO_Less", "OO_LessEqual", "OO_Spaceship",
            "OO_Equal", "OO_SlashEqual", "OO_PercentEqual", "OO_CaretEqual",
            "OO_PipeEqual", "OO_LessLessEqual", "OO_GreaterGreaterEqual",
            "OO_PlusEqual", "OO_MinusEqual", "OO_StarEqual", "OO_AmpEqual",
            "OO_Slash", "OO_Percent", "OO_Caret", "OO_Pipe", "OO_LessLess",
            "OO_GreaterGreater", "OO_AmpAmp", "OO_PipePipe", "OO_ArrowStar",
            "OO_Comma", "OO_Plus", "OO_Minus", "OO_Star", "OO_Amp"}}
  \cup {[op |-> o, form |-> "prefix"] :
          o \in {"OO_Tilde", "OO_Exclaim", "OO_PlusPlus", "OO_MinusMinus",
                 "OO_Plus", "OO_Minus", "OO_Star", "OO_Amp", "OO_Coawait"}}
  \cup {[op |-> o, form |-> "postfix"] : o \in {"OO_PlusPlus", "OO_MinusMinus"}}
  \cup {[op |-> o, form |-> "bracket"] : o \in {"OO_Call", "OO_Subscript"}}

\* The call c of an overloaded operator after pos tokens and id0 AST nodes.
\* Its source range is the one CXXOperatorCallExpr::getSourceRange gives:
\* from the operator to the operand for a prefix operator, from the first
\* operand to the operator for a postfix one, from the first operand to the
\* closing bracket for a call or a subscript, else from the first operand to
\* the second.  The visitor enters the call, traverses its arguments and
\* walks up from it.
OperatorCallPiece(c, pos, id0) ==
  LET args == CASE c.form = "prefix" -> NamePiece(pos + 2, id0 + 1)
                [] c.form = "postfix" ->
                     Kids(NamePiece(pos + 1, id0 + 1), PhantomPiece(id0 + 2))
                [] OTHER -> Kids(NamePiece(pos + 1, id0 + 1), NamePiece(pos + 3, id0 + 2))
      S == id0 + Len(args.nodes) + 1
      toks == CASE c.form = "prefix" -> << c.op, "identifier" >>
                [] c.form = "postfix" -> << "identifier", c.op >>
                [] c.form = "binary" -> << "identifier", c.op, "identifier" >>
                [] OTHER -> << "identifier", c.op, "identifier", "r_bracket" >>
      operator == CASE c.form = "prefix" -> pos + 1
                    [] c.form = "bracket" -> pos + 4
                    [] OTHER -> pos + 2
  IN  Piece(toks,
            Append(args.nodes,
                   [ASTNode("CXXOperatorCallExpr", LocOfIndex(pos + 1),
                            LocOfIndex(pos + Len(toks)),
                            [i \in 1 .. Len(args.nodes) |-> id0 + i])
                      EXCEPT !.op = c.op, !.operatorLoc = LocOfIndex(operator)]),
            << Call("TraverseCXXOperatorCallExpr", S) >> \o args.steps
              \o << Call("WalkUpFrom", S) >>,
            S, LocOfIndex(pos + Len(toks)))

\* The built-in operators that are written as an overloaded one is.
BuiltinOperators ==
  {c \in OperatorCalls : c.form # "bracket" /\ c.op # "OO_Coawait"}

\* The opcode of the built-in operator c; the opcodes that isPostfix does
\* not tell apart are named as their overloaded operator is.
Opcode(c) ==
  CASE c.form = "postfix" /\ c.op = "OO_PlusPlus" -> "UO_PostInc"
    [] c.form = "postfix" /\ c.op = "OO_MinusMinus" -> "UO_PostDec"
    [] c.form = "prefix" /\ c.op = "OO_PlusPlus" -> "UO_PreInc"
    [] c.form = "prefix" /\ c.op = "OO_MinusMinus" -> "UO_PreDec"
    [] OTHER -> c.op

\* Operand i of the built-in operator c is read: an implicit
\* lvalue-to-rvalue conversion wraps it.  The left side of an assignment,
\* the operand of `++`, `--` and `&`, and the sides of a comma are not.
Converted(c, i) ==
  CASE c.form = "postfix" -> FALSE
    [] c.form = "prefix" -> c.op \notin {"OO_PlusPlus", "OO_MinusMinus", "OO_Amp"}
    [] c.op = "OO_Comma" -> FALSE
    [] c.op \in {"OO_Equal", "OO_SlashEqual", "OO_PercentEqual", "OO_CaretEqual",
                 "OO_PipeEqual", "OO_LessLessEqual", "OO_GreaterGreaterEqual",
                 "OO_PlusEqual", "OO_MinusEqual", "OO_StarEqual", "OO_AmpEqual"} -> i = 2
    [] OTHER -> TRUE

\* The operand at token p: the DeclRefExpr of a name as AST node id and,
\* when it is converted, the ImplicitCastExpr of the same token above it.
\* The visitor is handed the operand as the parent holds it.
OperandPiece(converted, p, id) ==
  Piece(<< "identifier" >>,
        << [ASTNode("DeclRefExpr", LocOfIndex(p), LocOfIndex(p), << >>)
              EXCEPT !.nameLoc = LocOfIndex(p)] >>
          \o (IF converted
                THEN << ASTNode("ImplicitCastExpr", LocOfIndex(p), LocOfIndex(p), << id >>) >>
              ELSE << >>),
        << Call("TraverseStmt", IF converted THEN id + 1 ELSE id) >>,
        IF converted THEN id + 1 ELSE id, LocOfIndex(p))

\* The built-in operator c after pos tokens and id0 AST nodes: a
\* UnaryOperator or a BinaryOperator over its operands, from its first
\* token to its last.
BuiltinOperatorPiece(c, pos, id0) ==
  LET first == OperandPiece(Converted(c, 1), pos + (IF c.form = "prefix" THEN 2 ELSE 1),
                            id0 + 1)
      second == IF c.form = "binary"
                  THEN OperandPiece(Converted(c, 2), pos + 3, id0 + Len(first.nodes) + 1)
                ELSE NoPiece(NullAST, InvalidLoc)
      S == id0 + Len(first.nodes) + Len(second.nodes) + 1
      toks == CASE c.form = "prefix" -> << c.op, "identifier" >>
                [] c.form = "postfix" -> << "identifier", c.op >>
                [] OTHER -> << "identifier", c.op, "identifier" >>
  IN  Piece(toks,
            first.nodes \o second.nodes
              \o << [ASTNode(IF c.form = "binary" THEN "BinaryOperator" ELSE "UnaryOperator",
                             LocOfIndex(pos + 1), LocOfIndex(pos + Len(toks)),
                             IF c.form = "binary" THEN << first.root, second.root >>
                             ELSE << first.root >>)
                       EXCEPT !.op = Opcode(c),
                              !.operatorLoc =
                                LocOfIndex(pos + (IF c.form = "prefix" THEN 1 ELSE 2))] >>,
            first.steps \o second.steps \o << Call("WalkUpFrom", S) >>,
            S, LocOfIndex(pos + Len(toks)))

\* `a OP b; x OP y;` after pos tokens and id0 AST nodes: the operator c
\* built in, and then overloaded, over the same written expression.
OperatorPairPiece(c, pos, id0) ==
  LET builtin == BuiltinOperatorPiece(c, pos, id0)
      call == OperatorCallPiece(c, pos + Len(builtin.toks) + 1, id0 + Len(builtin.nodes))
  IN  Piece(builtin.toks \o << "semi" >> \o call.toks \o << "semi" >>,
            builtin.nodes \o call.nodes, builtin.steps \o call.steps,
            << builtin.root, call.root >>, call.e)

\* `void f() { a OP b; x OP y; }` for each operator that can be built in.
BuiltinOperatorPrograms ==
  {FunctionOf(OperatorPairPiece(c, 5, 0)) : c \in BuiltinOperators}

\* The most declarators in one declaration.
MaxDeclarators == 2

RECURSIVE ChainsOfLen(_)
\* The chains of n declarators: `a`, `*a`, `a = 1` and `*a = 1` each.
ChainsOfLen(n) ==
  IF n = 0 THEN {<< >>}
  ELSE {<< [ptr |-> p, init |-> i] >> \o q :
          p \in BOOLEAN, i \in BOOLEAN, q \in ChainsOfLen(n - 1)}

\* The declarator d after pos tokens and id0 AST nodes, in the declaration
\* that starts at the location start in the context ctx: a comma unless
\* it is the first, `*` for a pointer, the name, `= 1` for an initializer.
\* The VarDecl begins where the declaration does and ends with its
\* declarator; its type-location ends at the `*`, or at `int`.
DeclaratorPiece(d, isFirst, pos, id0, start, ctx) ==
  LET name == pos + (IF isFirst THEN 0 ELSE 1) + (IF d.ptr THEN 1 ELSE 0) + 1
      last == IF d.init THEN name + 2 ELSE name
      init == IF d.init THEN CondPiece(name + 2, id0 + 1)
              ELSE NoPiece(NullAST, InvalidLoc)
      int == TypeLocNode("Builtin", start, start)
  IN  Parent((IF isFirst THEN << >> ELSE << "comma" >>)
               \o (IF d.ptr THEN << "star" >> ELSE << >>) \o << "identifier" >>
               \o (IF d.init THEN << "equal", "numeric_constant" >> ELSE << >>),
             init,
             [ASTNode("VarDecl", start, LocOfIndex(last), << init.root >>)
                EXCEPT !.isDecl = TRUE, !.ctx = ctx, !.nameLoc = LocOfIndex(name),
                       !.typeLoc =
                         IF d.ptr
                           THEN [chain |-> << TypeLocNode("Pointer", LocOfIndex(name - 1),
                                                          LocOfIndex(name - 1)), int >>,
                                 e |-> LocOfIndex(name - 1)]
                         ELSE [chain |-> << int >>, e |-> start]],
             id0 + Len(init.nodes) + 1)

RECURSIVE ChainPiece(_, _, _, _, _, _), ChainAfter(_, _, _, _, _, _)
\* The declarators of chain, one after the other.
ChainPiece(chain, isFirst, pos, id0, start, ctx) ==
  IF chain = << >> THEN NoPiece(<< >>, InvalidLoc)
  ELSE ChainAfter(DeclaratorPiece(Head(chain), isFirst, pos, id0, start, ctx),
                  chain, pos, id0, start, ctx)

\* The declarators of chain, the first of them laid out as first.
ChainAfter(first, chain, pos, id0, start, ctx) ==
  Join(first, ChainPiece(Tail(chain), FALSE, pos + Len(first.toks),
                         id0 + Len(first.nodes), start, ctx))

\* `int declarators ;` as a declaration.
GroupPiece(declarators) ==
  Piece(<< "kw_int" >> \o declarators.toks \o << "semi" >>, declarators.nodes,
        declarators.steps, declarators.root, declarators.e)

\* `int declarators ;` after pos tokens and id0 AST nodes as a declaration
\* statement: the visitor notices its declarations before it descends.
GroupStmtPiece(declarators, pos, id0) ==
  Piece(<< "kw_int" >> \o declarators.toks \o << "semi" >>,
        Append(declarators.nodes,
               ASTNode("DeclStmt", LocOfIndex(pos + 1),
                       LocOfIndex(pos + Len(declarators.toks) + 2), declarators.root)),
        << Call("TraverseStmt", id0 + Len(declarators.nodes) + 1) >>
          \o declarators.steps
          \o << Call("WalkUpFrom", id0 + Len(declarators.nodes) + 1) >>,
        << id0 + Len(declarators.nodes) + 1 >>,
        LocOfIndex(pos + Len(declarators.toks) + 2))

\* The declaration first, and `int a;` after it.
FollowedPiece(first) ==
  Join(first, GroupPiece(ChainPiece(<< [ptr |-> FALSE, init |-> FALSE] >>, TRUE,
                                    Len(first.toks) + 1, Len(first.nodes),
                                    LocOfIndex(Len(first.toks) + 1), 0)))

\* The declarations of chains of declarators: at the top level, alone or
\* followed by another declaration, and as a statement of a function.
ChainPrograms ==
  UNION {{GroupPiece(ChainPiece(c, TRUE, 1, 0, LocOfIndex(1), 0)),
          FollowedPiece(GroupPiece(ChainPiece(c, TRUE, 1, 0, LocOfIndex(1), 0))),
          FunctionOf(GroupStmtPiece(ChainPiece(c, TRUE, 6, 0, LocOfIndex(6), LocOfIndex(1)),
                                    5, 0))} :
         c \in UNION {ChainsOfLen(n) : n \in 1 .. MaxDeclarators}}

\* The most specifiers in one qualifier, the global one not counted.
MaxSpecifiers == 2

RECURSIVE SpecifiersOfLen(_)
\* The chains of n specifiers: each is the namespace `n::`, the namespace
\* alias `n::`, the dependent name `T::`, the class `S::`, `T<int>::`,
\* `template T<int>::`, the dependent `T<int>::` that lacks its `template`,
\* `decltype(a)::` or `__super::`.
SpecifiersOfLen(n) ==
  IF n = 0 THEN {<< >>}
  ELSE {<< k >> \o q : k \in {"Identifier", "NamespaceAlias", "DependentName", "Record",
                              "Template", "TemplateKeyword", "DependentTemplate",
                              "Decltype", "Super"},
                       q \in SpecifiersOfLen(n - 1)}

\* The specifier k after pos tokens and id0 AST nodes, in the qualifier
\* that starts at the location start and has the specifiers of prefix
\* before it.
SpecifierPiece(k, pos, id0, start, prefix) ==
  LET toks == CASE k = "Global" -> << "coloncolon" >>
                [] k \in {"Identifier", "NamespaceAlias", "DependentName", "Record"} ->
                     << "identifier", "coloncolon" >>
                [] k \in {"Template", "DependentTemplate"} ->
                     << "identifier", "less", "kw_int", "greater", "coloncolon" >>
                [] k = "TemplateKeyword" ->
                     << "kw_template", "identifier", "less", "kw_int", "greater",
                        "coloncolon" >>
                [] k = "Super" -> << "kw___super", "coloncolon" >>
                [] k = "Decltype" ->
                     << "kw_decltype", "l_paren", "identifier", "r_paren", "coloncolon" >>
      expr == IF k = "Decltype" THEN NamePiece(pos + 3, id0 + 1).nodes ELSE << >>
  IN  Piece(toks,
            Append(expr,
                   [ASTNode("NestedNameSpecifierLoc", start, LocOfIndex(pos + Len(toks)),
                            IF k = "Decltype" THEN << prefix, id0 + 1 >> ELSE << prefix >>)
                      EXCEPT !.specifier = CASE k = "Global" -> "Global"
                                             [] k = "Identifier" -> "Namespace"
                                             [] k = "NamespaceAlias" -> "NamespaceAlias"
                                             [] k = "DependentName" -> "Identifier"
                                             [] k = "TemplateKeyword" ->
                                                  "TypeSpecWithTemplate"
                                             [] k = "Super" -> "Super"
                                             [] OTHER -> "TypeSpec",
                             !.typeClass = CASE k = "Template" -> "TemplateSpecialization"
                                             [] k \in {"TemplateKeyword",
                                                       "DependentTemplate"} ->
                                                  "DependentTemplateSpecialization"
                                             [] k = "Decltype" -> "Decltype"
                                             [] k = "Record" -> "Record"
                                             [] OTHER -> "",
                             !.templateKwLoc = IF k = "TemplateKeyword"
                                                 THEN LocOfIndex(pos + 1) ELSE InvalidLoc,
                             !.localLoc = LocOfIndex(pos + 1)]),
            << >>, id0 + Len(expr) + 1, LocOfIndex(pos + Len(toks)))

\* The piece first and then the piece rest, whose root is that of both.
Before(first, rest) ==
  Piece(first.toks \o rest.toks, first.nodes \o rest.nodes,
        first.steps \o rest.steps, rest.root, rest.e)

RECURSIVE QualifierPiece(_, _, _, _, _), QualifierAfter(_, _, _, _, _)
\* The specifiers of chain, one after the other; the root is the
\* NestedNameSpecifierLoc of the whole qualifier.
QualifierPiece(chain, pos, id0, start, prefix) ==
  IF chain = << >> THEN NoPiece(prefix, InvalidLoc)
  ELSE QualifierAfter(SpecifierPiece(Head(chain), pos, id0, start, prefix),
                      chain, pos, id0, start)

QualifierAfter(first, chain, pos, id0, start) ==
  Before(first, QualifierPiece(Tail(chain), pos + Len(first.toks),
                               id0 + Len(first.nodes), start, first.root))

\* The qualified name `qualifier x` after pos tokens: the visitor
\* traverses the qualifier of the DeclRefExpr and walks up from it.
QualifiedNamePiece(qualifier, pos) ==
  Piece(qualifier.toks \o << "identifier" >>,
        Append(qualifier.nodes,
               [ASTNode("DeclRefExpr", LocOfIndex(pos + 1),
                        LocOfIndex(pos + Len(qualifier.toks) + 1), << >>)
                  EXCEPT !.nameLoc = LocOfIndex(pos + Len(qualifier.toks) + 1),
                         !.qualifier = qualifier.root]),
        << Call("TraverseNestedNameSpecifierLoc", qualifier.root),
           Call("WalkUpFrom", qualifier.root + 1) >>,
        qualifier.root + 1, LocOfIndex(pos + Len(qualifier.toks) + 1))

\* The member expressions: `x` and `S::x` with an implicit `this`, and
\* `a.x`, `a->x` and `this->x`, each with or without the qualifier `S::`.
MemberAccesses ==
  {[access |-> "implicit", base |-> "this", qualified |-> q] : q \in BOOLEAN}
  \cup {[access |-> "period", base |-> "name", qualified |-> q] : q \in BOOLEAN}
  \cup {[access |-> "arrow", base |-> b, qualified |-> q] :
          b \in {"name", "this"}, q \in BOOLEAN}

\* The member expression m after pos tokens: the base is the AST node 1, an
\* implicit `this` sits at the member; the visitor traverses the qualifier,
\* then the base, and walks up from the member expression last.
MemberPiece(m, pos) ==
  LET written == IF m.access = "implicit" THEN << >>
                 ELSE << IF m.base = "this" THEN "kw_this" ELSE "identifier", m.access >>
      qualifier == IF m.qualified
                     THEN SpecifierPiece("Record", pos + Len(written), 1,
                                         LocOfIndex(pos + Len(written) + 1), NullAST)
                   ELSE NoPiece(NullAST, InvalidLoc)
      member == LocOfIndex(pos + Len(written) + Len(qualifier.toks) + 1)
      base == IF m.base = "name"
                THEN [ASTNode("DeclRefExpr", LocOfIndex(pos + 1), LocOfIndex(pos + 1), << >>)
                        EXCEPT !.nameLoc = LocOfIndex(pos + 1)]
              ELSE IF m.access = "implicit"
                THEN [ASTNode("CXXThisExpr", member, member, << >>)
                        EXCEPT !.isImplicit = TRUE]
              ELSE ASTNode("CXXThisExpr", LocOfIndex(pos + 1), LocOfIndex(pos + 1), << >>)
      S == 1 + Len(qualifier.nodes) + 1
  IN  Piece(written \o qualifier.toks \o << "identifier" >>,
            << base >> \o qualifier.nodes \o
            << [ASTNode("MemberExpr", LocOfIndex(pos + 1), member, << 1 >>)
                  EXCEPT !.nameLoc = member,
                         !.qualifier = qualifier.root,
                         !.operatorLoc = IF m.access = "implicit" THEN InvalidLoc
                                         ELSE LocOfIndex(pos + 2)] >>,
            (IF m.qualified
               THEN << Call("TraverseNestedNameSpecifierLoc", qualifier.root) >>
             ELSE << >>)
              \o << Call("WalkUpFrom", 1), Call("WalkUpFrom", S) >>,
            S, member)

\* The statements `member-expression;`.
MemberPrograms ==
  {FunctionOf(ExprStmtPiece(MemberPiece(m, 5))) : m \in MemberAccesses}

\* The statements `qualifier x;`, with and without a leading `::`.
QualifiedNamePrograms ==
  {FunctionOf(ExprStmtPiece(
     QualifiedNamePiece(QualifierPiece(c, 5, 0, LocOfIndex(6), NullAST), 5))) :
     c \in UNION {{q, << "Global" >> \o q} : q \in UNION {SpecifiersOfLen(n) :
                                                          n \in 0 .. MaxSpecifiers}}
            \ {<< >>}}

\* The piece p and the semicolon after it.
Terminated(p) == Piece(p.toks \o << "semi" >>, p.nodes, p.steps, p.root, p.e)

\* The template parameter `class T` at the tokens p and p + 1, as AST
\* node id: the visitor walks up from it to VisitDecl.
TemplateParameterPiece(p, id) ==
  LeafPiece(<< >>, [ASTNode("TemplateTypeParmDecl", LocOfIndex(p), LocOfIndex(p + 1), << >>)
                      EXCEPT !.isDecl = TRUE, !.ctx = LocOfIndex(p)], id)

\* The class definition after pos tokens and id0 AST nodes: `struct X { }`
\* for a CXXRecordDecl, `template < > struct X < int > { }` for an
\* explicit specialization, `template < class T > struct X < T * > { }`
\* for a partial specialization.  The source range of a specialization
\* begins at `template`, and its type begins at `struct`.
TagPiece(kind, isFreeStanding, pos, id0) ==
  LET header == CASE kind = "ClassTemplateSpecializationDecl" ->
                       << "kw_template", "less", "greater" >>
                  [] kind = "ClassTemplatePartialSpecializationDecl" ->
                       << "kw_template", "less", "kw_class", "identifier", "greater" >>
                  [] OTHER -> << >>
      arguments == CASE kind = "ClassTemplateSpecializationDecl" ->
                          << "less", "kw_int", "greater" >>
                     [] kind = "ClassTemplatePartialSpecializationDecl" ->
                          << "less", "identifier", "star", "greater" >>
                     [] OTHER -> << >>
      parameter == IF kind = "ClassTemplatePartialSpecializationDecl"
                     THEN TemplateParameterPiece(pos + 3, id0 + 1)
                   ELSE NoPiece(NullAST, InvalidLoc)
      id == id0 + Len(parameter.nodes) + 1
      walked ==
      Parent(header \o << "kw_struct", "identifier" >> \o arguments
               \o << "l_brace", "r_brace" >>,
             parameter,
             [ASTNode(kind, LocOfIndex(pos + 1),
                      LocOfIndex(pos + Len(header) + Len(arguments) + 4), << >>)
                EXCEPT !.isDecl = TRUE, !.isFreeStanding = isFreeStanding,
                       !.isExplicitSpecialization = kind # "CXXRecordDecl",
                       !.tagLoc = LocOfIndex(pos + Len(header) + 1),
                       !.templateKwLoc =
                         IF kind = "ClassTemplatePartialSpecializationDecl"
                           THEN LocOfIndex(pos + 1) ELSE InvalidLoc,
                       !.templateParameterLists =
                         IF kind = "ClassTemplateSpecializationDecl"
                           THEN << LocOfIndex(pos + 1) >> ELSE << >>],
             id)
  IN  IF kind = "ClassTemplateSpecializationDecl"
        THEN [walked EXCEPT
                !.steps = Append(@, Call("TraverseClassTemplateSpecializationDecl", id))]
      ELSE walked

\* `template < class T > inner` after pos tokens and id0 AST nodes, inner
\* laid out after pos + 5 tokens and id0 + 1 AST nodes.
TemplatePiece(kind, inner, pos, id0) ==
  Parent(<< "kw_template", "less", "kw_class", "identifier", "greater" >> \o inner.toks,
         Kids(TemplateParameterPiece(pos + 3, id0 + 1), inner),
         [ASTNode(kind, LocOfIndex(pos + 1), inner.e, << inner.root >>)
            EXCEPT !.isDecl = TRUE, !.templateKwLoc = LocOfIndex(pos + 1)],
         id0 + 1 + Len(inner.nodes) + 1)

\* The explicit instantiation `template struct X < int > ;`, after `extern`
\* or not: its source range begins at `extern` or `template` and ends at
\* `>`, its type begins at `struct`; the visitor does not walk up from it.
InstantiationPiece(isExtern) ==
  LET pos == IF isExtern THEN 1 ELSE 0 IN
  Piece((IF isExtern THEN << "kw_extern" >> ELSE << >>)
          \o << "kw_template", "kw_struct", "identifier", "less", "kw_int", "greater",
                "semi" >>,
        << [ASTNode("ClassTemplateSpecializationDecl", LocOfIndex(1), LocOfIndex(pos + 6),
                    << >>)
              EXCEPT !.isDecl = TRUE, !.isFreeStanding = TRUE,
                     !.tagLoc = LocOfIndex(pos + 2),
                     !.templateKwLoc = LocOfIndex(pos + 1),
                     !.externLoc = IF isExtern THEN LocOfIndex(1) ELSE InvalidLoc] >>,
        << Call("TraverseClassTemplateSpecializationDecl", 1) >>,
        1, LocOfIndex(pos + 7))

\* `namespace n { body }` before any other token.
NamespacePiece(body) ==
  Parent(<< "kw_namespace", "identifier", "l_brace" >> \o body.toks \o << "r_brace" >>,
         body,
         [ASTNode("NamespaceDecl", LocOfIndex(1), LocOfIndex(Len(body.toks) + 4), << >>)
            EXCEPT !.isDecl = TRUE],
         Len(body.nodes) + 1)

\* The declaration first, and the empty declaration `;` after it.
\* `namespace a :: b { body }` before any other token: the namespace b
\* is declared in a, begins at the `::` and ends at the brace a ends at.
NestedNamespacePiece(body) ==
  LET rbrace == LocOfIndex(Len(body.toks) + 6)
      inner == Parent(<< "coloncolon", "identifier", "l_brace" >> \o body.toks
                        \o << "r_brace" >>,
                      body,
                      [ASTNode("NamespaceDecl", LocOfIndex(3), rbrace, << >>)
                         EXCEPT !.isDecl = TRUE, !.ctx = LocOfIndex(1)],
                      Len(body.nodes) + 1)
  IN  Parent(<< "kw_namespace", "identifier" >> \o inner.toks, inner,
             [ASTNode("NamespaceDecl", LocOfIndex(1), rbrace, << inner.root >>)
                EXCEPT !.isDecl = TRUE],
             Len(body.nodes) + 2)

BeforeEmptyDecl(first) ==
  Before(first, DeclPiece([k |-> "EmptyDecl", kids |-> << >>],
                          Len(first.toks), Len(first.nodes)))

\* The declarations of templates, classes and namespaces:
\* `template <class T> void f() {}`, `template <class T> struct X {};`,
\* `struct X {};` and its specializations, `struct S {} declarators;`,
\* `; ;`, `namespace n {}` and `namespace n { int a; }`, alone and before
\* `;`.
DeclarationPrograms ==
  {TemplatePiece("FunctionTemplateDecl",
                 FunctionPiece(CompoundPiece(NoPiece(<< >>, InvalidLoc), 9, 1), 5, 1), 0, 0),
   Terminated(TemplatePiece("ClassTemplateDecl", TagPiece("CXXRecordDecl", TRUE, 5, 1),
                            0, 0))}
  \cup {Terminated(TagPiece(k, TRUE, 0, 0)) : k \in TagDeclKinds \ {"EnumDecl"}}
  \cup {Terminated(Before(TagPiece("CXXRecordDecl", FALSE, 0, 0),
                          ChainPiece(c, TRUE, 4, 1, LocOfIndex(1), 0))) :
          c \in UNION {ChainsOfLen(n) : n \in 1 .. MaxDeclarators}}
  \cup {BeforeEmptyDecl(DeclPiece([k |-> "EmptyDecl", kids |-> << >>], 0, 0))}
  \cup {InstantiationPiece(isExtern) : isExtern \in BOOLEAN}
  \cup UNION {{NestedNamespacePiece(b), BeforeEmptyDecl(NestedNamespacePiece(b))} :
              b \in {NoPiece(<< >>, InvalidLoc),
                     GroupPiece(ChainPiece(<< [ptr |-> FALSE, init |-> FALSE] >>, TRUE,
                                           6, 0, LocOfIndex(6), LocOfIndex(3)))}}
  \cup UNION {{NamespacePiece(b), BeforeEmptyDecl(NamespacePiece(b))} :
              b \in {NoPiece(<< >>, InvalidLoc),
                     GroupPiece(ChainPiece(<< [ptr |-> FALSE, init |-> FALSE] >>, TRUE,
                                           4, 0, LocOfIndex(4), LocOfIndex(1)))}}

\* The most type constructors of one declarator.
MaxDeclaratorOps == 3

\* The type constructors of a declarator: a pointer `*`, parentheses, a
\* function `()`, and a function with the trailing return `-> int` or
\* `-> int *`.
FunctionOps == {"FunctionProto", "Trailing", "TrailingPointer"}

DeclaratorOps == {"Pointer", "Paren"} \cup FunctionOps

\* The sequences of at most n type constructors, the one nearest to the
\* name first, that are written as they are listed: `()` binds tighter than
\* `*`, no function returns a function, and a trailing return ends the type.
DeclaratorShapes(n) ==
  {ops \in UNION {[1 .. l -> DeclaratorOps] : l \in 0 .. n} :
     \A k \in 1 .. Len(ops) :
       /\ ops[k] \in FunctionOps /\ k > 1
            => ops[k - 1] \notin {"Pointer"} \cup FunctionOps
       /\ ops[k] \in {"Trailing", "TrailingPointer"} => k = Len(ops)}

\* The token of the kind `kind` that is the part `part` of the k-th type
\* constructor.
DeclaratorTok(kind, k, part) == [kind |-> kind, op |-> k, part |-> part]

RECURSIVE DeclaratorToks(_, _)
\* The tokens of the declarator of the first k type constructors of ops.
DeclaratorToks(ops, k) ==
  IF k = 0 THEN << DeclaratorTok("identifier", 0, "name") >>
  ELSE IF ops[k] = "Pointer"
    THEN << DeclaratorTok("star", k, "open") >> \o DeclaratorToks(ops, k - 1)
  ELSE IF ops[k] = "Paren"
    THEN << DeclaratorTok("l_paren", k, "open") >> \o DeclaratorToks(ops, k - 1)
           \o << DeclaratorTok("r_paren", k, "close") >>
  ELSE DeclaratorToks(ops, k - 1)
         \o << DeclaratorTok("l_paren", k, "open"), DeclaratorTok("r_paren", k, "close") >>

\* The tokens of the trailing return of the type constructor op.
TrailingToks(op) ==
  IF op = "Trailing"
    THEN << DeclaratorTok("arrow", 0, "arrow"), DeclaratorTok("kw_int", 0, "return") >>
  ELSE IF op = "TrailingPointer"
    THEN << DeclaratorTok("arrow", 0, "arrow"), DeclaratorTok("kw_int", 0, "return"),
            DeclaratorTok("star", 0, "returnPointer") >>
  ELSE << >>

\* The tokens of the declaration `int declarator;`, or `auto declarator ->
\* int;` with a trailing return.
ShapeToks(ops) ==
  << DeclaratorTok(IF ops # << >> /\ ops[Len(ops)] \in {"Trailing", "TrailingPointer"}
                     THEN "kw_auto" ELSE "kw_int", 0, "base") >>
    \o DeclaratorToks(ops, Len(ops))
    \o (IF ops = << >> THEN << >> ELSE TrailingToks(ops[Len(ops)]))
    \o << DeclaratorTok("semi", 0, "semi") >>

\* The location of the token of toks that is the part `part` of the k-th
\* type constructor.
ShapeLoc(toks, k, part) ==
  LocOfIndex(CHOOSE i \in 1 .. Len(toks) : toks[i].op = k /\ toks[i].part = part)

\* The type-locations of the type constructors ops and of the type they
\* apply to, each with its local range for its end.
LocalTypeLocs(ops, toks) ==
  [k \in 1 .. Len(ops) |->
     IF ops[k] = "Pointer"
       THEN TypeLocNode("Pointer", ShapeLoc(toks, k, "open"), ShapeLoc(toks, k, "open"))
     ELSE IF ops[k] = "Paren"
       THEN [TypeLocNode("Paren", ShapeLoc(toks, k, "open"), ShapeLoc(toks, k, "close"))
               EXCEPT !.rparen = ShapeLoc(toks, k, "close")]
     ELSE [TypeLocNode("FunctionProto", ShapeLoc(toks, k, "open"),
                       ShapeLoc(toks, k, "close"))
             EXCEPT !.rparen = ShapeLoc(toks, k, "close"),
                    !.trailing = ops[k] # "FunctionProto",
                    !.returnLoc =
                      IF ops[k] = "FunctionProto" THEN @
                      ELSE SourceRange(ShapeLoc(toks, 0, "return"),
                                       IF ops[k] = "Trailing"
                                         THEN ShapeLoc(toks, 0, "return")
                                       ELSE ShapeLoc(toks, 0, "returnPointer"))]]
    \o (IF ops # << >> /\ ops[Len(ops)] = "TrailingPointer"
          THEN << TypeLocNode("Pointer", ShapeLoc(toks, 0, "returnPointer"),
                              ShapeLoc(toks, 0, "returnPointer")) >>
        ELSE << >>)
    \o << IF ops # << >> /\ ops[Len(ops)] \in {"Trailing", "TrailingPointer"}
            THEN TypeLocNode("Builtin", ShapeLoc(toks, 0, "return"),
                             ShapeLoc(toks, 0, "return"))
          ELSE TypeLocNode("Builtin", ShapeLoc(toks, 0, "base"),
                           ShapeLoc(toks, 0, "base")) >>

RECURSIVE TypeLocGetEndLoc(_, _)
\* TypeLoc::getEndLoc() of the first type-location of chain, Last being
\* the end of the type-location that ends the type so far.
TypeLocGetEndLoc(chain, Last_) ==
  LET Cur_ == Head(chain) IN
  IF Cur_.kind = "Paren" THEN TypeLocGetEndLoc(Tail(chain), Cur_.e)
  ELSE IF Cur_.kind = "FunctionProto"
    THEN TypeLocGetEndLoc(Tail(chain), IF Cur_.trailing THEN InvalidLoc ELSE Cur_.e)
  ELSE IF Cur_.kind = "Pointer"
    THEN TypeLocGetEndLoc(Tail(chain), IF Last_ = InvalidLoc THEN Cur_.e ELSE Last_)
  ELSE IF Last_ = InvalidLoc THEN Cur_.e ELSE Last_

\* The type-locations of the type constructors ops, the type of the
\* declaration first, each ending where TypeLoc::getEndLoc() says.
TypeLocs(ops, toks) ==
  LET local == LocalTypeLocs(ops, toks) IN
  [k \in 1 .. Len(local) |->
     [local[k] EXCEPT !.e = TypeLocGetEndLoc(SubSeq(local, k, Len(local)), InvalidLoc)]]

RECURSIVE TypeLocSteps(_, _, _)
\* RecursiveASTVisitor::TraverseTypeLoc on the k-th type-location of the
\* declaration D: parentheses walk up before their inner type, a function
\* after its return type.
TypeLocSteps(ops, k, D) ==
  IF k > Len(ops) THEN << >>
  ELSE IF ops[k] = "Pointer" THEN TypeLocSteps(ops, k + 1, D)
  ELSE IF ops[k] = "Paren"
    THEN << CallOn("WalkUpFromParenTypeLoc", D, k) >> \o TypeLocSteps(ops, k + 1, D)
  ELSE TypeLocSteps(ops, k + 1, D) \o << CallOn("WalkUpFromFunctionProtoTypeLoc", D, k) >>

\* The declaration of the name `a` with the type constructors ops: a
\* function when the type is a function type under its parentheses.
ShapePiece(ops) ==
  LET toks == ShapeToks(ops)
      chain == TypeLocs(ops, toks)
      first == SelectSeq(ops, LAMBDA op : op # "Paren")
      end == TypeLocGetEndLoc(chain, InvalidLoc)
      name == ShapeLoc(toks, 0, "name")
  IN  Piece([i \in 1 .. Len(toks) |-> toks[i].kind],
            << [ASTNode(IF first # << >> /\ Head(first) \in FunctionOps
                          THEN "FunctionDecl" ELSE "VarDecl",
                        ShapeLoc(toks, 0, "base"), IF end < name THEN name ELSE end,
                        << NullAST >>)
                  EXCEPT !.isDecl = TRUE, !.nameLoc = name,
                         !.typeLoc = [chain |-> chain, e |-> end]] >>,
            TypeLocSteps(ops, 1, 1) \o << Call("WalkUpFrom", 1) >>,
            << 1 >>, ShapeLoc(toks, 0, "semi"))

\* The parameters of `void f(parameter);`: `int`, `int *`, each with or
\* without the name and the default argument `= 1`.
ParameterShapes == [ptr : BOOLEAN, named : BOOLEAN, init : BOOLEAN]

\* `void f(parameter);`: the default argument is the AST node 1 when there
\* is one, then come the parameter and the function.
ParameterPiece(p) ==
  LET star == IF p.ptr THEN 5 ELSE 4
      name == IF p.named THEN star + 1 ELSE star
      last == IF p.init THEN name + 2 ELSE name
      init == IF p.init THEN CondPiece(last, 1) ELSE NoPiece(NullAST, InvalidLoc)
      P == Len(init.nodes) + 1
      int == TypeLocNode("Builtin", LocOfIndex(4), LocOfIndex(4))
  IN  Piece(<< "kw_void", "identifier", "l_paren", "kw_int" >>
              \o (IF p.ptr THEN << "star" >> ELSE << >>)
              \o (IF p.named THEN << "identifier" >> ELSE << >>)
              \o (IF p.init THEN << "equal", "numeric_constant" >> ELSE << >>)
              \o << "r_paren", "semi" >>,
            init.nodes \o
            << [ASTNode("ParmVarDecl", LocOfIndex(4), LocOfIndex(last), << init.root >>)
                  EXCEPT !.isDecl = TRUE, !.ctx = P + 1,
                         !.nameLoc = IF p.named THEN LocOfIndex(name) ELSE InvalidLoc,
                         !.typeLoc =
                           IF p.ptr
                             THEN [chain |-> << TypeLocNode("Pointer", LocOfIndex(5),
                                                            LocOfIndex(5)), int >>,
                                   e |-> LocOfIndex(5)]
                           ELSE [chain |-> << int >>, e |-> LocOfIndex(4)]],
               [ASTNode("FunctionDecl", LocOfIndex(1), LocOfIndex(last + 1), << P >>)
                  EXCEPT !.isDecl = TRUE, !.nameLoc = LocOfIndex(2),
                         !.typeLoc =
                           [chain |-> << [TypeLocNode("FunctionProto", LocOfIndex(3),
                                                      LocOfIndex(last + 1))
                                            EXCEPT !.rparen = LocOfIndex(last + 1),
                                                   !.params = << P >>],
                                         TypeLocNode("Builtin", LocOfIndex(1),
                                                     LocOfIndex(1)) >>,
                            e |-> LocOfIndex(last + 1)]] >>,
            init.steps \o << Call("WalkUpFrom", P),
                             Call("WalkUpFromFunctionProtoTypeLoc", P + 1),
                             Call("WalkUpFrom", P + 1) >>,
            P + 1, LocOfIndex(last + 2))

\* The declarations of one declarator each.
DeclaratorPrograms ==
  {ShapePiece(ops) : ops \in DeclaratorShapes(MaxDeclaratorOps)}
  \cup {ParameterPiece(p) : p \in ParameterShapes}

\* The programs: one statement or one group of declarations each.
\* `void f() { if (1) S }` and `void f() { if (1) S else ; }`, S one of `;`
\* and `x;`: the location of `else` is invalid in the first.
IfPrograms ==
  {DeclPiece([k |-> "FunctionDecl",
              kids |-> << [k |-> "IfStmt", kids |-> << [k |-> then, kids |-> << >>] >> \o else] >>],
             0, 0) :
     then \in {"NullStmt", "DeclRefExpr"},
     else \in {<< >>, << [k |-> "NullStmt", kids |-> << >>] >>}}

ProgramsAST ==
  {FunctionOf(ExprStmtPiece(OperatorCallPiece(c, 5, 0))) : c \in OperatorCalls}
  \cup BuiltinOperatorPrograms
  \cup IfPrograms
  \cup ChainPrograms
  \cup QualifiedNamePrograms
  \cup DeclarationPrograms
  \cup DeclaratorPrograms
  \cup MemberPrograms

\* BuildTreeVisitor::TraverseCXXOperatorCallExpr(S), up to the traversal of
\* the arguments: the calls on a skipped argument, which has no children,
\* are not made.
TraverseCXXOperatorCallExprArguments ==
  /\ Calls("TraverseCXXOperatorCallExpr", {"CXXOperatorCallExpr"})
  /\ \E after \in {TraverseArguments(Cur, Head(todo).n)} :
       /\ Commit(after, [NoOp EXCEPT !.op = "TraverseCXXOperatorCallExpr",
                                     !.node = Head(todo).n])
       /\ phase' = IF after.failure = NoFailure THEN "building" ELSE "aborted"
       /\ todo' = SelectSeq(Tail(todo),
                            LAMBDA c : c.n \notin SkippedArguments(Head(todo).n))
       /\ UNCHANGED << tokens, unspelled, root, ast >>

\* BuildTreeVisitor::TraverseStmt(S) on an expression: the visitor descends
\* into S->IgnoreImplicit(), traverses its children and walks up from it.
TraverseStmtOfExpr ==
  /\ Calls("TraverseStmt", ExprKinds)
  /\ Commit(Cur, [NoOp EXCEPT !.op = "TraverseStmt", !.node = Head(todo).n])
  /\ phase' = phase
  /\ todo' = [i \in 1 .. Len(ast[IgnoreImplicit(Head(todo).n)].kids) |->
                Call("TraverseStmt", ast[IgnoreImplicit(Head(todo).n)].kids[i])]
              \o << Call("WalkUpFrom", IgnoreImplicit(Head(todo).n)) >> \o Tail(todo)
  /\ UNCHANGED << tokens, unspelled, root, ast >>

TraverseUnaryOperator ==
  /\ Calls("WalkUpFrom", {"UnaryOperator"})
  /\ Return(WalkUpFromUnaryOperator(Cur, Head(todo).n), "WalkUpFromUnaryOperator")

TraverseBinaryOperator ==
  /\ Calls("WalkUpFrom", {"BinaryOperator"})
  /\ Return(WalkUpFromBinaryOperator(Cur, Head(todo).n), "WalkUpFromBinaryOperator")

\* BuildTreeVisitor::TraverseCXXOperatorCallExpr(S), after the arguments.
TraverseCXXOperatorCallExpr ==
  /\ Calls("WalkUpFrom", {"CXXOperatorCallExpr"})
  /\ Return(WalkUpFromCXXOperatorCallExpr(Cur, Head(todo).n),
            "WalkUpFromCXXOperatorCallExpr")

\* RecursiveASTVisitor::TraverseDeclRefExpr(S) before it walks up: it
\* traverses S's qualifier.
TraverseDeclRefExprQualifier ==
  /\ Calls("TraverseNestedNameSpecifierLoc", {"NestedNameSpecifierLoc"})
  /\ Return(TraverseNestedNameSpecifierLoc(Cur, Head(todo).n),
            "TraverseNestedNameSpecifierLoc")

\* WalkUpFromTemplateTypeParmDecl ends in VisitDecl.
TraverseTemplateTypeParmDecl ==
  /\ Calls("WalkUpFrom", {"TemplateTypeParmDecl"})
  /\ Return(VisitDecl(Cur, Head(todo).n), "VisitDecl")

\* TraverseFunctionTemplateDecl and TraverseClassTemplateDecl end in
\* WalkUpFromTemplateDecl.
TraverseTemplateDecl ==
  /\ Calls("WalkUpFrom", {"FunctionTemplateDecl", "ClassTemplateDecl"})
  /\ Return(WalkUpFromTemplateDecl(Cur, Head(todo).n), "WalkUpFromTemplateDecl")

\* TraverseCXXRecordDecl and the traversals of explicit and partial
\* specializations end in WalkUpFromTagDecl.
TraverseTagDecl ==
  /\ Calls("WalkUpFrom", TagDeclKinds)
  /\ Return(WalkUpFromTagDecl(Cur, Head(todo).n), "WalkUpFromTagDecl")

TraverseClassTemplateSpecialization ==
  /\ Calls("TraverseClassTemplateSpecializationDecl", {"ClassTemplateSpecializationDecl"})
  /\ Return(TraverseClassTemplateSpecializationDecl(Cur, Head(todo).n),
            "TraverseClassTemplateSpecializationDecl")

TraverseNamespaceDecl ==
  /\ Calls("WalkUpFrom", {"NamespaceDecl"})
  /\ Return(WalkUpFromNamespaceDecl(Cur, Head(todo).n), "WalkUpFromNamespaceDecl")

InitAST ==
  \E parsed \in ProgramsAST :
    /\ InitBuilder(TokensOf(parsed.toks), {})
    /\ ast = parsed.nodes
    /\ todo = parsed.steps
    /\ Input = << >>

NextAST ==
  \/ TraverseIfStmt
  \/ TraverseNullStmt
  \/ TraverseStmtOfExpr
  \/ TraverseUnaryOperator
  \/ TraverseBinaryOperator
  \/ TraverseCXXOperatorCallExprArguments
  \/ TraverseCXXOperatorCallExpr
  \/ TraverseDeclRefExprQualifier
  \/ TraverseDeclRefExpr
  \/ TraverseIntegerLiteral
  \/ TraverseCompoundStmt
  \/ TraverseStmt
  \/ TraverseDeclStmt
  \/ TraverseDeclaratorDecl
  \/ TraverseFunctionProtoTypeLoc
  \/ TraverseParenTypeLoc
  \/ TraverseMemberExpr
  \/ TraverseCXXThisExpr
  \/ TraverseTemplateTypeParmDecl
  \/ TraverseTemplateDecl
  \/ TraverseTagDecl
  \/ TraverseClassTemplateSpecialization
  \/ TraverseNamespaceDecl
  \/ TraverseEmptyDecl
  \/ FinalizeFold
  \/ FinalizeRoot

SpecAST == InitAST /\ [][NextAST]_vars


-----------------------------------------------------------------------------
(* clang/lib/Tooling/Transformer/Parsing.cpp: the parser of range          *)
(* selectors.  A string is the sequence of its characters, a character a   *)
(* string of length one; the characters with no spelling here are named    *)
(* by their escape.                                                        *)

\* isWhitespace(c) of clang/Basic/CharInfo.h: ' ', \t, \f, \v, \n, \r.
WhitespaceChars == {" ", "\t", "\f", "\\v", "\n", "\r"}

\* isIdentifierBody(c) of clang/Basic/CharInfo.h: letters, digits and '_'.
IdentifierBodyChars ==
  {"a", "b", "c", "d", "e", "f", "g", "h", "i", "j", "k", "l", "m",
   "n", "o", "p", "q", "r", "s", "t", "u", "v", "w", "x", "y", "z",
   "A", "B", "C", "D", "E", "F", "G", "H", "I", "J", "K", "L", "M",
   "N", "O", "P", "Q", "R", "S", "T", "U", "V", "W", "X", "Y", "Z",
   "0", "1", "2", "3", "4", "5", "6", "7", "8", "9", "_"}

\* The characters c with c < 0 where char is signed: the bytes above 127.
NegativeChars == {"\\200", "\\377"}

isWhitespace(c) == c \in WhitespaceChars

isIdentifierBody(c) == c \in IdentifierBodyChars

\* getUnaryStringSelectors(): the keys of the map.
UnaryStringSelectors ==
  {<< "n", "a", "m", "e" >>,
   << "n", "o", "d", "e" >>,
   << "s", "t", "a", "t", "e", "m", "e", "n", "t" >>,
   << "s", "t", "a", "t", "e", "m", "e", "n", "t", "s" >>,
   << "m", "e", "m", "b", "e", "r" >>,
   << "c", "a", "l", "l", "A", "r", "g", "s" >>,
   << "e", "l", "s", "e", "B", "r", "a", "n", "c", "h" >>,
   << "i", "n", "i", "t", "L", "i", "s", "t", "E", "l", "e", "m", "e", "n", "t", "s" >>}

\* getUnaryRangeSelectors(): the keys of the map.
UnaryRangeSelectors ==
  {<< "b", "e", "f", "o", "r", "e" >>,
   << "a", "f", "t", "e", "r" >>,
   << "e", "x", "p", "a", "n", "s", "i", "o", "n" >>}

\* getBinaryStringSelectors(): the keys of the map.
BinaryStringSelectors ==
  {<< "e", "n", "c", "l", "o", "s", "e", "N", "o", "d", "e", "s" >>}

\* getBinaryRangeSelectors(): the keys of the map.
BinaryRangeSelectors ==
  {<< "e", "n", "c", "l", "o", "s", "e" >>,
   << "b", "e", "t", "w", "e", "e", "n" >>}

\* findOptional(Map, Key) has a value.
findOptional(Map, Key) == Key \in Map

\* ParseState{Input, OriginalInput}.
ParseState(In, OriginalInput) == [Input |-> In, OriginalInput |-> OriginalInput]

\* makeParseProgress(State, Result).
makeParseProgress(State, Value) == [ok |-> TRUE, State |-> State, Value |-> Value]

\* StringRef::substr(Start, N): the characters from Start (0-based), at most
\* N of them.
substr(S, Start, N) ==
  SubSeq(S, Min({Start, Len(S)}) + 1, Min({Start + N, Len(S)}))

\* The length of the excerpt of a parse error.
ExcerptLength == 20

\* makeParseError that takes the excerpt from the input that remains.
makeParseErrorOfRemaining(S, ErrorMsg) ==
  LET Pos == Len(S.OriginalInput) - Len(S.Input) IN
  [ok |-> FALSE, Pos |-> Pos, ErrorMsg |-> ErrorMsg,
   Excerpt |-> substr(S.Input, Pos, ExcerptLength)]

\* makeParseError(S, ErrorMsg): the ParseError at the position of S.
makeParseError(S, ErrorMsg) ==
  LET Pos == Len(S.OriginalInput) - Len(S.Input) IN
  [ok |-> FALSE, Pos |-> Pos, ErrorMsg |-> ErrorMsg,
   Excerpt |-> substr(S.OriginalInput, Pos, ExcerptLength)]

\* StringRef::drop_front(N).
drop_front(S, N) == SubSeq(S, N + 1, Len(S))

\* advance(S, N).
advance(S, N) == [S EXCEPT !.Input = drop_front(@, N)]

\* consumeWhitespace that drops nothing.
consumeNoWhitespace(S) == S

RECURSIVE consumeWhitespace(_)
\* consumeWhitespace(S): S.drop_while(c >= 0 && isWhitespace(c)).
consumeWhitespace(S) ==
  IF S # << >> /\ Head(S) \notin NegativeChars /\ isWhitespace(Head(S))
    THEN consumeWhitespace(Tail(S))
  ELSE S

RECURSIVE take_while_IdentifierBody(_)
\* S.take_while(c >= 0 && isIdentifierBody(c)).
take_while_IdentifierBody(S) ==
  IF S # << >> /\ Head(S) \notin NegativeChars /\ isIdentifierBody(Head(S))
    THEN << Head(S) >> \o take_while_IdentifierBody(Tail(S))
  ELSE << >>

RECURSIVE take_until_Quote(_)
\* S.take_until(c == '"').
take_until_Quote(S) ==
  IF S # << >> /\ Head(S) # "\""
    THEN << Head(S) >> \o take_until_Quote(Tail(S))
  ELSE << >>

\* parseChar(c, State).
parseChar(c, State) ==
  LET Skipped == [State EXCEPT !.Input = consumeWhitespace(@)] IN
  IF Skipped.Input = << >> \/ Head(Skipped.Input) # c
    THEN makeParseError(Skipped, << "expected char not found", << c >> >>)
  ELSE makeParseProgress(advance(Skipped, 1), "None")

\* parseId(State).
parseId(State) ==
  LET Skipped == [State EXCEPT !.Input = consumeWhitespace(@)]
      Id == take_while_IdentifierBody(Skipped.Input)
  IN  IF Id = << >> THEN makeParseError(Skipped, << "failed to parse name", << >> >>)
      ELSE makeParseProgress(advance(Skipped, Len(Id)), Id)

\* parseStringId(State).
parseStringId(State) ==
  LET Skipped == [State EXCEPT !.Input = consumeWhitespace(@)]
      Opened == [Skipped EXCEPT !.Input = Tail(@)]
      Id == take_until_Quote(Opened.Input)
  IN  IF Skipped.Input = << >>
        THEN makeParseError(Skipped, << "unexpected end of input", << >> >>)
      ELSE IF Head(Skipped.Input) # "\""
        THEN makeParseError(
               Skipped,
               << "expecting string, but encountered other character or end of input",
                  << >> >>)
      ELSE IF Len(Opened.Input) = Len(Id)
        THEN makeParseError(Opened, << "unterminated string", << >> >>)
      ELSE makeParseProgress(advance(Opened, Len(Id) + 1), Id)

\* The RangeSelector that the combinator Op makes of its arguments.
RangeSelector(Op, Args) == [op |-> Op, args |-> Args]

RECURSIVE parseRangeSelectorImpl(_)
\* A call through the ParseFunction pointer ParseElement.
CallParseFunction(ParseElement, State) ==
  IF ParseElement = "parseStringId" THEN parseStringId(State)
  ELSE parseRangeSelectorImpl(State)

\* parseSingle(ParseElement, Op, State), from the result P of parseChar('(')
\* on.
parseSingleAfter(P, ParseElement, Op) ==
  IF ~P.ok THEN P
  ELSE \* E = ParseElement(P->State)
       LET E == CallParseFunction(ParseElement, P.State) IN
       IF ~E.ok THEN E
       ELSE LET Q == parseChar(")", E.State) IN
            IF ~Q.ok THEN Q
            ELSE makeParseProgress(Q.State, RangeSelector(Op, << E.Value >>))

\* parseSingle(ParseElement, Op, State).
parseSingle(ParseElement, Op, State) ==
  parseSingleAfter(parseChar("(", State), ParseElement, Op)

\* parsePair(ParseElement, Op, State), from the result Left of the first
\* ParseElement on.
parsePairAfter(Left, ParseElement, Op) ==
  IF ~Left.ok THEN Left
  ELSE LET P == parseChar(",", Left.State) IN
       IF ~P.ok THEN P
       ELSE LET Right == CallParseFunction(ParseElement, P.State) IN
            IF ~Right.ok THEN Right
            ELSE LET Q == parseChar(")", Right.State) IN
                 IF ~Q.ok THEN Q
                 ELSE makeParseProgress(
                        Q.State, RangeSelector(Op, << Left.Value, Right.Value >>))

\* parsePair(ParseElement, Op, State).
parsePair(ParseElement, Op, State) ==
  LET P == parseChar("(", State) IN
  IF ~P.ok THEN P
  ELSE parsePairAfter(CallParseFunction(ParseElement, P.State), ParseElement, Op)

\* parseRangeSelectorImpl(State), from the result Id of parseId on.
parseRangeSelectorAfter(Id, State) ==
  IF ~Id.ok THEN Id
  ELSE IF findOptional(UnaryStringSelectors, Id.Value)
    THEN parseSingle("parseStringId", Id.Value, Id.State)
  ELSE IF findOptional(UnaryRangeSelectors, Id.Value)
    THEN parseSingle("parseRangeSelectorImpl", Id.Value, Id.State)
  ELSE IF findOptional(BinaryStringSelectors, Id.Value)
    THEN parsePair("parseStringId", Id.Value, Id.State)
  ELSE IF findOptional(BinaryRangeSelectors, Id.Value)
    THEN parsePair("parseRangeSelectorImpl", Id.Value, Id.State)
  ELSE makeParseError(State, << "unknown selector name", Id.Value >>)

parseRangeSelectorImpl(State) == parseRangeSelectorAfter(parseId(State), State)

\* transformer::parseRangeSelector(Input), from the result of
\* parseRangeSelectorImpl on.
parseRangeSelectorAfter2(R) ==
  IF ~R.ok THEN [called |-> TRUE, ok |-> FALSE, Error |-> R]
  ELSE IF consumeWhitespace(R.State.Input) = << >>
    THEN [called |-> TRUE, ok |-> TRUE, Value |-> R.Value]
  ELSE [called |-> TRUE, ok |-> FALSE,
        Error |-> makeParseError([R.State EXCEPT !.Input = consumeWhitespace(@)],
                                 << "unexpected input after selector", << >> >>)]

\* transformer::parseRangeSelector(Input).
parseRangeSelector(In) ==
  parseRangeSelectorAfter2(parseRangeSelectorImpl(ParseState(In, In)))


-----------------------------------------------------------------------------
(* parseRangeSelector on selectors and on the strings one edit away from   *)
(* a selector.  A string is built of pieces: names and single characters.  *)

\* The deepest nesting of selectors in the arguments of a selector.
MaxNesting == 1

\* The node id `"c"`.
QuotedPieces(c) == << << "\"" >>, << c >>, << "\"" >> >>

\* `op(arg)`.
SinglePieces(op, arg) == << op, << "(" >> >> \o arg \o << << ")" >> >>

\* `op(left,right)`.
PairPieces(op, left, right) ==
  << op, << "(" >> >> \o left \o << << "," >> >> \o right \o << << ")" >> >>

RECURSIVE NestedPieces(_)
\* `name("a")` inside d selectors `before( )`.
NestedPieces(d) ==
  IF d = 0 THEN SinglePieces(<< "n", "a", "m", "e" >>, QuotedPieces("a"))
  ELSE SinglePieces(<< "b", "e", "f", "o", "r", "e" >>, NestedPieces(d - 1))

\* The selectors of every name, with arguments nested less than d deep.
SelectorPieces(d) ==
  {SinglePieces(op, QuotedPieces("a")) : op \in UnaryStringSelectors}
  \cup {PairPieces(op, QuotedPieces("a"), QuotedPieces("b")) : op \in BinaryStringSelectors}
  \cup {SinglePieces(op, NestedPieces(k)) : op \in UnaryRangeSelectors, k \in 0 .. (d - 1)}
  \cup {PairPieces(op, NestedPieces(k), NestedPieces(l)) :
          op \in BinaryRangeSelectors, k \in 0 .. (d - 1), l \in 0 .. (d - 1)}

\* The pieces an edit puts into a string.
EditPieces ==
  {<< " " >>, << "\n" >>, << "(" >>, << ")" >>, << "," >>, << "\"" >>, << "x" >>,
   << "\\377" >>, << "n", "o", "d", "e" >>, << "e", "n", "c", "l", "o", "s", "e" >>,
   << "e", "n", "c", "l", "o", "s", "e", "N", "o", "d", "e", "s" >>}

\* q, q cut after a piece, and q with one piece deleted, replaced or
\* inserted.
EditsOf(q) ==
  {SubSeq(q, 1, i) : i \in 0 .. Len(q)}
  \cup {SubSeq(q, 1, i - 1) \o SubSeq(q, i + 1, Len(q)) : i \in 1 .. Len(q)}
  \cup {[q EXCEPT ![i] = c] : i \in 1 .. Len(q), c \in EditPieces}
  \cup {SubSeq(q, 1, i) \o << c >> \o SubSeq(q, i + 1, Len(q)) :
          i \in 0 .. Len(q), c \in EditPieces}

RECURSIVE Flat(_)
\* The characters of the pieces of q.
Flat(q) == IF q = << >> THEN << >> ELSE Head(q) \o Flat(Tail(q))

\* The strings handed to parseRangeSelector.
Inputs == {Flat(e) : e \in UNION {EditsOf(q) : q \in SelectorPieces(MaxNesting)}}

\* A client calls parseRangeSelector(Input).
ParseRangeSelector ==
  /\ Parsed = NoResult
  /\ Parsed' = parseRangeSelector(Input)
  /\ UNCHANGED << tokens, unspelled, nodes, Trees, Mapping, DeclsWithoutSemicolons,
                  failure, phase, root, ast, todo, lastOp, Input >>

\* No syntax tree is being built.
InitParse ==
  /\ InitBuilder(PlainTokens(0), {})
  /\ ast = << >>
  /\ todo = << >>
  /\ Input \in Inputs

NextParse == ParseRangeSelector

SpecParse == InitParse /\ [][NextParse]_vars


-----------------------------------------------------------------------------
(* Properties of the forest and of finalize().                             *)

\* The expanded tokens without eof, in order.
AllTokens == [i \in 1 .. NumTokens |-> i]

\* The tokens b, ..., e - 1 in order.
TokenRange(b, e) == [i \in 1 .. (e - b) |-> b + i - 1]

RECURSIVE SortedSeq(_)
\* The elements of a set of numbers in increasing order.
SortedSeq(S) == IF S = {} THEN << >> ELSE << Min(S) >> \o SortedSeq(S \ {Min(S)})

\* The forest entries whose key lies in [b, e), in key order.
EntriesIn(T, b, e) ==
  LET ks == SortedSeq({k \in DOMAIN T : b <= k /\ k < e})
  IN  [i \in 1 .. Len(ks) |-> T[ks[i]]]

\* The range [b, e) is one or more whole consecutive forest entries.
RangeIsUnionOfEntries(b, e) ==
  /\ b < e
  /\ b \in DOMAIN Trees
  /\ LeavesOfSeq(nodes, EntriesIn(Trees, b, e)) = TokenRange(b, e)

\* The range [b, e) is exactly the tokens of the forest entry keyed at b.
RangeIsOneEntry(b, e) ==
  /\ b < e
  /\ b \in DOMAIN Trees
  /\ LeavesOf(nodes, Trees[b]) = TokenRange(b, e)

\* C1: Token coverage: when finalize() has returned, the leaves of the
\* returned TranslationUnit, read left to right, are exactly the expanded
\* tokens in order without the trailing eof.
C1_TokenCoverage ==
  phase = "done" =>
    /\ nodes[root].kind = "TranslationUnit"
    /\ LeavesOf(nodes, root) = AllTokens

\* finalize() has returned a tree of several tokens with a folded subtree
\* of at least two tokens next to another child.
C1_Witness ==
  /\ phase = "done"
  /\ Len(nodes[root].children) >= 2
  /\ \E c \in 1 .. Len(nodes) :
       /\ \E i \in 1 .. Len(nodes[root].children) : nodes[root].children[i] = c
       /\ nodes[c].kind # "Leaf"
       /\ Len(LeavesOf(nodes, c)) >= 2

\* C2: Partition invariant: the subtree stored at key t has as its leaves
\* exactly the tokens from t up to the next key, or up to the end of the
\* non-eof tokens for the last entry.
C2_Partition ==
  phase \in {"building", "folded"} =>
    \A t \in DOMAIN Trees :
      LeavesOf(nodes, Trees[t]) =
        TokenRange(t, IF next(Trees, t) = End THEN NumTokens + 1 ELSE next(Trees, t))

\* C3: foldChildren rejects every ill-formed range: a fold that completes
\* had a range that was a contiguous union of whole forest entries.
C3_FoldRejectsIllFormed ==
  [][(lastOp'.op = "foldNode" /\ failure' = NoFailure)
       => RangeIsUnionOfEntries(lastOp'.b, lastOp'.e)]_vars

\* C4: foldChildren effect: over a range that coincides with k >= 1
\* consecutive forest entries, the children of New are those entries in
\* token order, a detached child gets role Unknown and any other keeps its
\* role, the entries leave the forest, and New is the entry keyed at the
\* first token, with original = true.
C4_FoldEffect ==
  [][(lastOp'.op = "foldNode" /\ RangeIsUnionOfEntries(lastOp'.b, lastOp'.e))
       => LET b == lastOp'.b
              e == lastOp'.e
              New == lastOp'.node
              kids == EntriesIn(Trees, b, e)
          IN  /\ failure' = NoFailure
              /\ nodes'[New].children = kids
              /\ \A i \in 1 .. Len(kids) :
                   nodes'[kids[i]].role =
                     IF nodes[kids[i]].role = "Detached" THEN "Unknown"
                     ELSE nodes[kids[i]].role
              /\ DOMAIN Trees' = {k \in DOMAIN Trees : k < b \/ k >= e} \cup {b}
              /\ Trees'[b] = New
              /\ \A k \in DOMAIN Trees : (k < b \/ k >= e) => Trees'[k] = Trees[k]
              /\ nodes'[New].original = TRUE]_vars

\* A fold has just made a node of two or more children, one that had been
\* given a role before and one that was still detached.
C4_Witness ==
  /\ lastOp.op = "foldNode"
  /\ failure = NoFailure
  /\ LeavesOf(nodes, lastOp.node) = TokenRange(lastOp.b, lastOp.e)
  /\ \E i, j \in 1 .. Len(nodes[lastOp.node].children) :
       /\ nodes[nodes[lastOp.node].children[i]].role = "IntroducerKeyword"
       /\ nodes[nodes[lastOp.node].children[j]].role = "Unknown"

\* C5: assignRole sets a role only when the range is exactly the token
\* range of one forest entry whose role is Detached; otherwise the call
\* aborts and no role changes.
C5_AssignRoleExact ==
  [][lastOp'.op = "assignRole"
       => IF RangeIsOneEntry(lastOp'.b, lastOp'.e)
               /\ nodes[Trees[lastOp'.b]].role = "Detached"
            THEN failure' = NoFailure
            ELSE failure' # NoFailure /\ nodes' = nodes]_vars

\* C6: Single role: a step changes a node's role only from Detached, and
\* only to a role other than Detached.
C6_SingleRole ==
  [][\A n \in 1 .. Len(nodes) :
       nodes'[n].role # nodes[n].role
         => nodes[n].role = "Detached" /\ nodes'[n].role # "Detached"]_vars

\* A mark call has aborted on a node that already had a role, and a node
\* holds the role a client gave it.
C6_Witness ==
  /\ failure \in {"re-assigning role for a child", "N->role() == NodeRole::Detached"}
  /\ \E n \in 1 .. Len(nodes) : nodes[n].role = "IntroducerKeyword"
  /\ \E n \in 1 .. Len(nodes) : nodes[n].role = "Unknown"

\* C7 as stated: in the returned tree no node, the TranslationUnit root
\* included, has role Detached.
C7_NoDetachedAtAll ==
  phase = "done" => \A n \in DescendantsOf(nodes, root) : nodes[n].role # "Detached"

\* C7 as amended: in the returned tree no node below the root has role
\* Detached; the TranslationUnit root, which nothing folds or marks, still
\* has the role Detached it was created with.
C7_NoDetachedBelowRoot ==
  phase = "done" =>
    /\ nodes[root].role = "Detached"
    /\ \A n \in DescendantsOf(nodes, root) \ {root} : nodes[n].role # "Detached"

\* finalize() has returned a tree with a folded subtree below the root
\* whose children were never marked.
C7_Witness ==
  /\ phase = "done"
  /\ \E c \in DescendantsOf(nodes, root) \ {root} :
       /\ nodes[c].kind # "Leaf"
       /\ nodes[c].role = "Unknown"
       /\ Len(nodes[c].children) >= 2
       /\ \A i \in 1 .. Len(nodes[c].children) : nodes[nodes[c].children[i]].role = "Unknown"

\* C8: Final single root: TreeBuilder::finalize folds all non-eof tokens
\* under a new TranslationUnit without an assert firing, after which the
\* forest has exactly one entry, whose range is the whole non-eof token
\* array; Forest::finalize returns that entry and leaves the forest empty.
C8_FinalSingleRoot ==
  /\ lastOp.op \in {"finalize", "Forest::finalize"} => failure = NoFailure
  /\ phase = "folded" =>
       /\ Cardinality(DOMAIN Trees) = 1
       /\ \A t \in DOMAIN Trees :
            /\ nodes[Trees[t]].kind = "TranslationUnit"
            /\ Trees[t] = lastOp.node
            /\ LeavesOf(nodes, Trees[t]) = AllTokens
  /\ phase = "done" =>
       /\ Trees = << >>
       /\ root = Len(nodes)
       /\ nodes[root].kind = "TranslationUnit"
       /\ LeavesOf(nodes, root) = AllTokens

\* finalize() has returned after folds that left more than one forest
\* entry, over at least two tokens.
C8_Witness ==
  /\ phase = "done"
  /\ NumTokens >= 2
  /\ Len(nodes) > NumTokens + 1
  /\ Len(nodes[root].children) >= 2

\* C9: On well-formed input the precondition assertions cannot fire: for
\* every well-formed nest of statements and declarations (compound, if,
\* while, for, switch, expression, empty, return and declaration
\* statements; function definitions and empty declarations) the traversal
\* and finalize() run to the end and no assert aborts them: no fold crosses
\* the boundary of an existing subtree, no role is assigned twice, no
\* AST-to-CST mapping is added twice.
C9_NoAssertionFires ==
  /\ failure # "fold crosses boundaries of existing subtrees"
  /\ failure # "re-assigning role for a child"
  /\ failure # "N->role() == NodeRole::Detached"
  /\ failure # "mapping added twice"
  /\ phase # "aborted"

\* The kinds of the statement nodes of the syntax tree.
StatementKinds ==
  {"CompoundStatement", "IfStatement", "WhileStatement", "ForStatement",
   "SwitchStatement", "ExpressionStatement", "DeclarationStatement",
   "EmptyStatement", "ReturnStatement"}

RECURSIVE SemicolonTerminated(_)
\* The statement S of the AST ends in a semicolon of its own: a return,
\* expression, declaration or empty statement does, a compound statement
\* does not, and an if, while, for or switch statement does when its last
\* sub-statement does.
SemicolonTerminated(S) ==
  CASE ast[S].kind = "CompoundStmt" -> FALSE
    [] ast[S].kind = "IfStmt" ->
         SemicolonTerminated(IF getElse(S) # NullAST THEN getElse(S) ELSE getThen(S))
    [] ast[S].kind \in {"WhileStmt", "ForStmt", "SwitchStmt"} ->
         SemicolonTerminated(getBody(S))
    [] OTHER -> TRUE

\* The statement of the AST that the syntax node n was folded for; an
\* ExpressionStatement wraps an expression in statement position.
RequiresSemicolon(n) ==
  IF nodes[n].kind = "ExpressionStatement" THEN TRUE
  ELSE SemicolonTerminated(CHOOSE S \in DOMAIN Mapping.Nodes : Mapping.Nodes[S] = n)

\* The last token under the syntax node n is a semicolon.
LastLeafIsSemicolon(n) ==
  /\ LeavesOf(nodes, n) # << >>
  /\ tokens[LeavesOf(nodes, n)[Len(LeavesOf(nodes, n))]].kind = "semi"

\* C10: Semicolon inclusion: in the tree built for a nest of statements, a
\* statement node has a semicolon as its last leaf if and only if its
\* statement is semicolon-terminated (return, expression, declaration and
\* empty statements, and statements whose last sub-statement is one of
\* these, are; compound statements and statements that end in a compound
\* body are not).
C10_SemicolonIffTerminated ==
  failure = NoFailure =>
    \A n \in 1 .. Len(nodes) :
      nodes[n].kind \in StatementKinds =>
        (LastLeafIsSemicolon(n) <=> RequiresSemicolon(n))

\* The statements and expressions of the AST.
StmtsOfAST ==
  {S \in 1 .. Len(ast) :
     ast[S].kind \in ExprKinds \cup {"CompoundStmt", "IfStmt", "WhileStmt", "ForStmt",
                                     "SwitchStmt", "ReturnStmt", "NullStmt", "DeclStmt"}}

\* The statement S is one whose range is extended: it is not a compound
\* statement, its source range does not end in a semicolon, and the token
\* right after its source range is a semicolon.
StmtRangeIsExtended(S) ==
  /\ ast[S].kind # "CompoundStmt"
  /\ tokens[findToken(ast[S].e)].kind # "semi"
  /\ tokens[findToken(ast[S].e) + 1].kind = "semi"

\* C20: Statement range: getStmtRange(S) is S's source token range, extended
\* by exactly one token if and only if S is not a compound statement, the
\* range does not already end in a semicolon, and the token immediately
\* after the range is a semicolon; otherwise the range is returned unchanged.
C20_StmtRange ==
  \A S \in StmtsOfAST :
    /\ getStmtRange(S).ok
    /\ getStmtRange(S).b = findToken(ast[S].b)
    /\ getStmtRange(S).e =
         findToken(ast[S].e) + 1 + (IF StmtRangeIsExtended(S) THEN 1 ELSE 0)

\* A statement whose range was extended has been folded, and so has a
\* compound statement that a semicolon follows, whose range was not.
C20_Witness ==
  /\ failure = NoFailure
  /\ \E S \in StmtsOfAST \cap DOMAIN Mapping.Nodes :
       /\ StmtRangeIsExtended(S)
       /\ LastLeafIsSemicolon(Mapping.Nodes[S])
  /\ \E S \in StmtsOfAST \cap DOMAIN Mapping.Nodes :
       /\ ast[S].kind = "CompoundStmt"
       /\ tokens[findToken(ast[S].e) + 1].kind = "semi"
       /\ ~LastLeafIsSemicolon(Mapping.Nodes[S])

\* C18: Original flag: every node of the returned tree, leaf or interior,
\* the TranslationUnit root included, has original = true.
C18_AllOriginal ==
  phase = "done" => \A n \in DescendantsOf(nodes, root) : nodes[n].original

\* A tree has been returned whose root has an interior node and a leaf
\* among its children.
C18_Witness ==
  /\ phase = "done"
  /\ \E i, j \in 1 .. Len(nodes[root].children) :
       /\ nodes[nodes[root].children[i]].kind = "Leaf"
       /\ nodes[nodes[root].children[j]].kind # "Leaf"
       /\ nodes[nodes[root].children[j]].children # << >>

\* The shape the operator Op called with NumArgs arguments folds as.
OperatorShape(Op, NumArgs) ==
  CASE Op \in {"OO_EqualEqual", "OO_ExclaimEqual", "OO_Less", "OO_Greater",
               "OO_LessEqual", "OO_GreaterEqual", "OO_Spaceship"} ->
         "BinaryOperatorExpression"
    [] Op \in {"OO_Equal", "OO_PlusEqual", "OO_MinusEqual", "OO_StarEqual",
               "OO_SlashEqual", "OO_PercentEqual", "OO_CaretEqual", "OO_AmpEqual",
               "OO_PipeEqual", "OO_LessLessEqual", "OO_GreaterGreaterEqual"} ->
         "BinaryOperatorExpression"
    [] Op \in {"OO_Slash", "OO_Percent", "OO_Caret", "OO_Pipe", "OO_LessLess",
               "OO_GreaterGreater", "OO_AmpAmp", "OO_PipePipe", "OO_ArrowStar",
               "OO_Comma"} -> "BinaryOperatorExpression"
    [] Op \in {"OO_Tilde", "OO_Exclaim"} -> "PrefixUnaryOperatorExpression"
    [] Op \in {"OO_PlusPlus", "OO_MinusMinus"} ->
         IF NumArgs = 1 THEN "PrefixUnaryOperatorExpression"
         ELSE "PostfixUnaryOperatorExpression"
    [] Op \in {"OO_Plus", "OO_Minus", "OO_Star", "OO_Amp"} ->
         IF NumArgs = 1 THEN "PrefixUnaryOperatorExpression"
         ELSE "BinaryOperatorExpression"
    [] Op \in {"OO_New", "OO_Delete", "OO_Array_New", "OO_Array_Delete",
               "OO_Subscript", "OO_Call", "OO_Arrow", "OO_Coawait"} ->
         "UnknownExpression"

\* The calls of overloaded operators in the AST.
OperatorCallsOfAST == {S \in 1 .. Len(ast) : ast[S].kind = "CXXOperatorCallExpr"}

\* C11: Operator shape table: a call of an overloaded operator folds as a
\* binary expression for the comparisons, all assignments, / % ^ | << >>
\* && || ->* and comma; as a prefix unary expression for ~ and !; for ++
\* and -- as prefix with one argument and postfix with two; for + - * & as
\* prefix with one argument and binary with two; and as UnknownExpression
\* for new, delete, their array forms, [], (), -> and co_await.  The node
\* folded for the call has exactly that kind.
C11_OperatorShape ==
  /\ \A Op \in {"OO_New", "OO_Delete", "OO_Array_New", "OO_Array_Delete", "OO_Plus",
                 "OO_Minus", "OO_Star", "OO_Slash", "OO_Percent", "OO_Caret", "OO_Amp",
                 "OO_Pipe", "OO_Tilde", "OO_Exclaim", "OO_Equal", "OO_Less",
                 "OO_Greater", "OO_PlusEqual", "OO_MinusEqual", "OO_StarEqual",
                 "OO_SlashEqual", "OO_PercentEqual", "OO_CaretEqual", "OO_AmpEqual",
                 "OO_PipeEqual", "OO_LessLess", "OO_GreaterGreater", "OO_LessLessEqual",
                 "OO_GreaterGreaterEqual", "OO_EqualEqual", "OO_ExclaimEqual",
                 "OO_LessEqual", "OO_GreaterEqual", "OO_Spaceship", "OO_AmpAmp",
                 "OO_PipePipe", "OO_PlusPlus", "OO_MinusMinus", "OO_Comma",
                 "OO_ArrowStar", "OO_Arrow", "OO_Call", "OO_Subscript", "OO_Coawait"} :
       \A NumArgs \in 1 .. 2 :
         getOperatorNodeKind(Op, NumArgs) = OperatorShape(Op, NumArgs)
  /\ \A S \in OperatorCallsOfAST :
       /\ (lastOp.op = "WalkUpFromCXXOperatorCallExpr" /\ lastOp.node = S) =>
            (failure = NoFailure /\ S \in DOMAIN Mapping.Nodes)
       /\ S \in DOMAIN Mapping.Nodes =>
            nodes[Mapping.Nodes[S]].kind = OperatorShape(ast[S].op, Len(ast[S].kids))

\* The tree of a function has been returned whose statement is `a++` or
\* `a--`, folded as a postfix expression.
C11_Witness ==
  /\ phase = "done"
  /\ \E S \in OperatorCallsOfAST \cap DOMAIN Mapping.Nodes :
       /\ ast[S].op \in {"OO_PlusPlus", "OO_MinusMinus"}
       /\ nodes[Mapping.Nodes[S]].kind = "PostfixUnaryOperatorExpression"

\* The calls of a postfix `++` or `--` whose second argument has no source
\* range.
PostfixCallsOfAST ==
  {S \in OperatorCallsOfAST :
     /\ ast[S].op \in {"OO_PlusPlus", "OO_MinusMinus"}
     /\ Len(ast[S].kids) = 2
     /\ ast[ast[S].kids[2]].b = InvalidLoc
     /\ ast[ast[S].kids[2]].e = InvalidLoc}

\* C17: Postfix phantom operand: for an overloaded postfix ++ or -- (two
\* arguments, the second without a valid source range) the second argument
\* is never traversed and gets no CST node or mapping, and the call is
\* folded as a PostfixUnaryOperatorExpression whose children are the first
\* argument (role operand) and the operator token (role operatorToken).
C17_PostfixPhantomOperand ==
  \A S \in PostfixCallsOfAST :
    /\ lastOp.node # ast[S].kids[2]
    /\ ast[S].kids[2] \notin DOMAIN Mapping.Nodes
    /\ \A c \in 1 .. Len(todo) :
         todo[c].n = ast[S].kids[2] =>
           \E d \in 1 .. c : todo[d] = Call("TraverseCXXOperatorCallExpr", S)
    /\ (lastOp.op = "WalkUpFromCXXOperatorCallExpr" /\ lastOp.node = S) =>
         (failure = NoFailure /\ S \in DOMAIN Mapping.Nodes)
    /\ S \in DOMAIN Mapping.Nodes =>
         LET N == nodes[Mapping.Nodes[S]] IN
           /\ N.kind = "PostfixUnaryOperatorExpression"
           /\ Len(N.children) = 2
           /\ N.children[1] = Mapping.Nodes[ast[S].kids[1]]
           /\ nodes[N.children[1]].role = "UnaryOperatorExpression_operand"
           /\ nodes[N.children[2]].kind = "Leaf"
           /\ tokens[nodes[N.children[2]].tok].loc = ast[S].operatorLoc
           /\ nodes[N.children[2]].role = "OperatorExpression_operatorToken"

\* A postfix call has been folded and the tree returned.
C17_Witness ==
  /\ phase = "done"
  /\ \E S \in PostfixCallsOfAST : S \in DOMAIN Mapping.Nodes

\* The declarators of the AST.
DeclaratorsOfAST == {D \in 1 .. Len(ast) : ast[D].kind \in DeclaratorDeclKinds}

\* The declarators of the declaration D belongs to: those of D's context
\* that begin where D begins.
ChainOf(D) ==
  {E \in DeclaratorsOfAST : ast[E].b = ast[D].b /\ ast[E].ctx = ast[D].ctx}

\* The visitor has made its calls on the AST node D, and nothing failed.
Walked(D) ==
  /\ failure = NoFailure
  /\ \A c \in 1 .. Len(todo) : todo[c].n # D

\* The declaration D is one of a declaration statement.
InDeclStmt(D) ==
  \E S \in 1 .. Len(ast) :
    ast[S].kind = "DeclStmt" /\ \E i \in 1 .. Len(ast[S].kids) : ast[S].kids[i] = D

\* The chain that ends in the declarator D is one SimpleDeclaration, made
\* for D, over the tokens from the start of the declaration to lastToken;
\* each declarator of the chain is a SimpleDeclarator child of it with role
\* SimpleDeclaration_declarator, and no other declarator has made a
\* SimpleDeclaration.
\* Where the range of the declarator E starts; invalid for an empty range.
DeclaratorBegin(E) ==
  getDeclaratorRange(ast[E].typeLoc, getQualifiedNameStart(E),
                     getInitializerRange(E)).r.b

ChainIsOneDeclaration(D, lastToken) ==
  /\ \A E \in ChainOf(D) \ {D} : E \notin DOMAIN Mapping.Nodes
  /\ D \in DOMAIN Mapping.Nodes
  /\ LET SD == Mapping.Nodes[D]
         declarators == {i \in 1 .. Len(nodes[SD].children) :
                           nodes[nodes[SD].children[i]].kind = "SimpleDeclarator"}
     IN  /\ nodes[SD].kind = "SimpleDeclaration"
         /\ LeavesOf(nodes, SD) = TokenRange(findToken(ast[D].b), lastToken + 1)
         /\ Cardinality({n \in 1 .. Len(nodes) :
                           /\ nodes[n].kind = "SimpleDeclaration"
                           /\ LeavesOf(nodes, n)[1] = findToken(ast[D].b)}) = 1
         /\ Cardinality(declarators) =
              Cardinality({E \in ChainOf(D) : DeclaratorBegin(E) # InvalidLoc})
         /\ \A E \in {E \in ChainOf(D) : DeclaratorBegin(E) # InvalidLoc} :
              \E i \in declarators :
                /\ nodes[nodes[SD].children[i]].role = "SimpleDeclaration_declarator"
                /\ LeavesOf(nodes, nodes[SD].children[i])[1] = findToken(DeclaratorBegin(E))
                /\ ast[E].nameLoc # InvalidLoc =>
                     \E l \in 1 .. Len(LeavesOf(nodes, nodes[SD].children[i])) :
                       LeavesOf(nodes, nodes[SD].children[i])[l] = findToken(ast[E].nameLoc)

\* The token after the declarator D is a semicolon.
SemicolonFollows(D) == tokens[findToken(ast[D].e) + 1].kind = "semi"

\* C12 as stated: Declarator chain: for a declaration with n >= 1
\* comma-separated declarators, exactly one SimpleDeclaration node is
\* produced (by the last declarator: the one whose next sibling in context
\* is absent, is not a declaration of the same kind, or begins at a
\* different location); it covers from the shared declaration start through
\* the last declarator's end plus the trailing semicolon if present, and
\* every declarator with a non-empty range is a SimpleDeclarator child of
\* it with role SimpleDeclaration_declarator.
C12_DeclaratorChain ==
  \A D \in DeclaratorsOfAST :
    /\ (lastOp.op = "WalkUpFromDeclaratorDecl" /\ lastOp.node = D) =>
         failure = NoFailure
    /\ isResponsibleForCreatingDeclaration(D) <=> D = Max(ChainOf(D))
    /\ (D = Max(ChainOf(D)) /\ Walked(D)) =>
         ChainIsOneDeclaration(D, findToken(ast[D].e)
                                    + (IF SemicolonFollows(D) THEN 1 ELSE 0))

\* C12, amended: as C12, but the SimpleDeclaration covers the trailing
\* semicolon only when the declaration is not one of a declaration
\* statement: there the semicolon is left to the DeclarationStatement.
C12_DeclaratorChainOutsideDeclStmt ==
  \A D \in DeclaratorsOfAST :
    /\ (lastOp.op = "WalkUpFromDeclaratorDecl" /\ lastOp.node = D) =>
         failure = NoFailure
    /\ isResponsibleForCreatingDeclaration(D) <=> D = Max(ChainOf(D))
    /\ (D = Max(ChainOf(D)) /\ Walked(D)) =>
         ChainIsOneDeclaration(D, findToken(ast[D].e)
                                    + (IF SemicolonFollows(D) /\ ~InDeclStmt(D)
                                         THEN 1 ELSE 0))

\* The tree has been returned for a chain of two declarators in a
\* declaration statement: the semicolon is the last leaf of the
\* DeclarationStatement and not of the SimpleDeclaration.
C12_Witness ==
  /\ phase = "done"
  /\ \E D \in DeclaratorsOfAST :
       /\ Cardinality(ChainOf(D)) = 2
       /\ D = Max(ChainOf(D))
       /\ SemicolonFollows(D)
       /\ InDeclStmt(D)
       /\ ~LastLeafIsSemicolon(Mapping.Nodes[D])
       /\ \E n \in 1 .. Len(nodes) :
            /\ nodes[n].kind = "DeclarationStatement"
            /\ nodes[n].children = << Mapping.Nodes[D], findToken(ast[D].e) + 1 >>

RECURSIVE SpecifiersOf(_)
\* The specifiers of the qualifier Q in source order: those of its prefix,
\* then its own.
SpecifiersOf(Q) ==
  IF Q = NullAST THEN << >> ELSE Append(SpecifiersOf(ast[Q].kids[1]), Q)

NameSpecifierKinds ==
  {"GlobalNameSpecifier", "IdentifierNameSpecifier", "SimpleTemplateNameSpecifier",
   "DecltypeNameSpecifier"}

\* C14: Nested-name-specifier list: for a qualifier chain of n specifiers
\* (a leading global `::` root included), the NestedNameSpecifier node is a
\* flat list whose children are, for each specifier in source order, one
\* name-specifier node with role List_element immediately followed by its
\* `::` token with role List_delimiter; no specifier node is nested inside
\* another and none is left outside the tree.
C14_FlatSpecifierList ==
  /\ lastOp.op = "TraverseNestedNameSpecifierLoc" =>
       \/ failure = NoFailure /\ lastOp.node \in DOMAIN Mapping.NNSNodes
       \/ failure \in {"We don't yet support the __super specifier", "Range.isValid()"}
  /\ \A Q \in DOMAIN Mapping.NNSNodes :
       LET N == nodes[Mapping.NNSNodes[Q]] IN
         /\ N.kind = "NestedNameSpecifier"
         /\ Len(N.children) = 2 * Len(SpecifiersOf(Q))
         /\ \A i \in 1 .. Len(SpecifiersOf(Q)) :
              /\ nodes[N.children[2 * i - 1]].kind \in NameSpecifierKinds
              /\ nodes[N.children[2 * i - 1]].role = "List_element"
              /\ LeavesOf(nodes, N.children[2 * i - 1]) =
                   TokenRange(findToken(ast[SpecifiersOf(Q)[i]].localLoc),
                              findToken(ast[SpecifiersOf(Q)[i]].e))
              /\ nodes[N.children[2 * i]].kind = "Leaf"
              /\ nodes[N.children[2 * i]].tok = findToken(ast[SpecifiersOf(Q)[i]].e)
              /\ nodes[N.children[2 * i]].role = "List_delimiter"
  /\ \A n \in 1 .. Len(nodes) :
       nodes[n].kind \in NameSpecifierKinds =>
         \E Q \in DOMAIN Mapping.NNSNodes :
           \E i \in 1 .. Len(nodes[Mapping.NNSNodes[Q]].children) :
             nodes[Mapping.NNSNodes[Q]].children[i] = n

\* The nodes that are forest entries: the roots of the subtrees built so
\* far, which have no parent yet.
ForestEntries == {Trees[k] : k \in DOMAIN Trees}

\* C15: Template declaration: folding a template declaration marks the
\* `template` keyword as IntroducerKeyword, creates one TemplateDeclaration
\* node over the whole range, and the inner (templated) declaration is a
\* child of that node with role TemplateDeclaration_declaration; the
\* TemplateDeclaration node itself is left for its own parent to give a
\* role.
C15_TemplateDeclaration ==
  /\ lastOp.op = "WalkUpFromTemplateDecl" =>
       /\ failure = NoFailure
       /\ lastOp.node \in DOMAIN Mapping.Nodes
       /\ LeavesOf(nodes, Mapping.Nodes[lastOp.node]) =
            TokenRange(findToken(ast[lastOp.node].b),
                       findToken(ast[lastOp.node].e) + 1
                         + (IF tokens[findToken(ast[lastOp.node].e) + 1].kind = "semi"
                              THEN 1 ELSE 0))
  /\ \A n \in 1 .. Len(nodes) :
       (nodes[n].kind = "TemplateDeclaration" /\ nodes[n].children # << >>) =>
         /\ tokens[nodes[nodes[n].children[1]].tok].kind = "kw_template"
         /\ nodes[nodes[n].children[1]].role = "IntroducerKeyword"
         /\ nodes[nodes[n].children[Len(nodes[n].children)]].kind
              \in {"SimpleDeclaration", "TemplateDeclaration"}
         /\ nodes[nodes[n].children[Len(nodes[n].children)]].role
              = "TemplateDeclaration_declaration"
         /\ n \in ForestEntries => nodes[n].role = "Detached"

\* The tag definitions that are not free-standing: declarators follow the
\* closing brace.
TagsWithDeclarators ==
  {C \in 1 .. Len(ast) : ast[C].kind \in TagDeclKinds /\ ~ast[C].isFreeStanding}

\* C16: Tag definition with declarator: for a variable declared together
\* with a tag definition (`struct S {} s;`), the resulting SimpleDeclaration
\* has as first child a single subtree for the tag definition `struct S {}`,
\* as second child the SimpleDeclarator for `s`, and the closing semicolon
\* as its last leaf.
C16_TagDefinitionWithDeclarator ==
  \A C \in TagsWithDeclarators : \A D \in DeclaratorsOfAST :
    (ast[D].b = ast[C].b /\ D = Max(ChainOf(D)) /\ Walked(D)) =>
      /\ D \in DOMAIN Mapping.Nodes
      /\ LET SD == Mapping.Nodes[D] IN
           /\ nodes[SD].kind = "SimpleDeclaration"
           /\ Len(nodes[SD].children) >= 3
           /\ LeavesOf(nodes, nodes[SD].children[1]) =
                TokenRange(findToken(ast[C].b), findToken(ast[C].e) + 1)
           /\ nodes[nodes[SD].children[2]].kind = "SimpleDeclarator"
           /\ tokens[LeavesOf(nodes, SD)[Len(LeavesOf(nodes, SD))]].kind = "semi"

\* The declarations of the AST.
DeclsOfAST == {D \in 1 .. Len(ast) : ast[D].isDecl}

\* The token D's declaration range starts at: that of the tag type for a
\* tag declaration, and that of the source range otherwise.
DeclarationStart(D) ==
  findToken(IF ast[D].kind \in TagDeclKinds THEN ast[D].tagLoc ELSE ast[D].b)

\* The conditions under which the token after D belongs to the declaration.
OwnsSemicolon(D) ==
  /\ tokens[findToken(ast[D].e) + 1].kind = "semi"
  /\ tokens[findToken(ast[D].e)].kind # "semi"
  /\ ast[D].kind # "NamespaceDecl"
  /\ D \notin DeclsWithoutSemicolons

\* C13: Declaration range: getDeclarationRange(D) is D's source token range
\* (for a tag declaration starting at the tag-type begin, without any
\* preceding template-parameter list), extended by the next token if and
\* only if that token is a semicolon, the range does not already end in a
\* semicolon, D is not a namespace, and D has not been marked no-semicolon.
C13_DeclarationRange ==
  \A D \in DeclsOfAST :
    getDeclarationRange(Cur, D) =
      TokRange(DeclarationStart(D),
               findToken(ast[D].e) + 1 + (IF OwnsSemicolon(D) THEN 1 ELSE 0))

\* An explicit specialization `template <> struct X<int> {};` has been
\* folded: its SimpleDeclaration starts at `struct`, after the template
\* parameter list, and ends in the semicolon that follows the closing brace.
C13_Witness ==
  /\ failure = NoFailure
  /\ lastOp.op = "WalkUpFromTagDecl"
  /\ ast[lastOp.node].kind = "ClassTemplateSpecializationDecl"
  /\ DeclarationStart(lastOp.node) > findToken(ast[lastOp.node].b)
  /\ OwnsSemicolon(lastOp.node)
  /\ \E n \in 1 .. Len(nodes) :
       /\ nodes[n].kind = "SimpleDeclaration"
       /\ LeavesOf(nodes, n) = TokenRange(getDeclarationRange(Cur, lastOp.node).b,
                                          getDeclarationRange(Cur, lastOp.node).e)
       /\ LeavesOf(nodes, n) = TokenRange(DeclarationStart(lastOp.node),
                                          findToken(ast[lastOp.node].e) + 2)

\* The characters i, ..., j - 1 of s are whitespace.
IsWhitespace(s, i, j) == \A k \in i .. (j - 1) : s[k] \in WhitespaceChars

\* The characters i, ..., j - 1 of s are a quoted node id after optional
\* whitespace: a quote, characters other than the quote, a quote.
IsQuotedId(s, i, j) ==
  \E q \in i .. (j - 2) :
    /\ IsWhitespace(s, i, q)
    /\ s[q] = "\""
    /\ s[j - 1] = "\""
    /\ \A k \in (q + 1) .. (j - 2) : s[k] # "\""

\* The selector names of the four tables.
SelectorNames ==
  UnaryStringSelectors \cup UnaryRangeSelectors
    \cup BinaryStringSelectors \cup BinaryRangeSelectors

RECURSIVE IsSelector(_, _, _)
\* The characters a, ..., r - 1 of s are the arguments that the table entry
\* of the name nm requires.
IsArguments(s, nm, a, r) ==
  CASE nm \in UnaryStringSelectors -> IsQuotedId(s, a, r)
    [] nm \in UnaryRangeSelectors -> IsSelector(s, a, r)
    [] nm \in BinaryStringSelectors ->
         \E m \in a .. r : \E c \in m .. (r - 1) :
           /\ s[c] = ","
           /\ IsWhitespace(s, m, c)
           /\ IsQuotedId(s, a, m)
           /\ IsQuotedId(s, c + 1, r)
    [] nm \in BinaryRangeSelectors ->
         \E m \in a .. r : \E c \in m .. (r - 1) :
           /\ s[c] = ","
           /\ IsWhitespace(s, m, c)
           /\ IsSelector(s, a, m)
           /\ IsSelector(s, c + 1, r)

\* The characters i, ..., j - 1 of s are a selector of the grammar:
\* a known name, `(`, the arguments, `)`, with optional whitespace before
\* each of them.
IsSelector(s, i, j) ==
  \E nm \in SelectorNames : \E n \in i .. (j - Len(nm)) :
    /\ IsWhitespace(s, i, n)
    /\ SubSeq(s, n, n + Len(nm) - 1) = nm
    /\ s[j - 1] = ")"
    /\ \E p \in (n + Len(nm)) .. (j - 2) :
         /\ IsWhitespace(s, n + Len(nm), p)
         /\ s[p] = "("
         /\ \E r \in (p + 1) .. (j - 1) :
              /\ IsWhitespace(s, r, j - 1)
              /\ IsArguments(s, nm, p + 1, r)

\* s is a string of the selector grammar: a selector and then only
\* whitespace.
InGrammar(s) ==
  \E j \in 1 .. (Len(s) + 1) : IsSelector(s, 1, j) /\ IsWhitespace(s, j, Len(s) + 1)

\* parseRangeSelector returns a selector for the strings of the grammar and
\* an error of one of the kinds for every other string.
AcceptsExactlyTheGrammar(kinds) ==
  Parsed # NoResult =>
    /\ Parsed.ok <=> InGrammar(Input)
    /\ ~Parsed.ok => Parsed.Error.ErrorMsg[1] \in kinds

\* C19 as stated: parseRangeSelector accepts exactly the strings of the
\* selector grammar: optional whitespace, a known selector name, `(`, the
\* arguments its table entry requires, `)`, and then only whitespace; every
\* other input yields a ParseError value (unknown selector name, expected
\* char not found, unterminated string, or unexpected input after selector)
\* and never a selector.
C19_AcceptsGrammar ==
  AcceptsExactlyTheGrammar({"unknown selector name", "expected char not found",
                            "unterminated string", "unexpected input after selector"})

\* C19, amended: as C19, where whitespace may precede the name, each
\* parenthesis, the comma and each argument, and the ParseError may also be
\* "failed to parse name", "unexpected end of input" or "expecting string,
\* but encountered other character or end of input".
C19_AcceptsGrammarAllErrors ==
  AcceptsExactlyTheGrammar({"unknown selector name", "expected char not found",
                            "unterminated string", "unexpected input after selector",
                            "failed to parse name", "unexpected end of input",
                            "expecting string, but encountered other character or end of input"})

\* parseRangeSelector has returned the selector of `between (name("a"),
\* name("a"))` with whitespace before a parenthesis.
C19_Witness ==
  /\ Parsed # NoResult
  /\ Parsed.ok
  /\ InGrammar(Input)
  /\ Parsed.Value.op = << "b", "e", "t", "w", "e", "e", "n" >>
  /\ Len(Parsed.Value.args) = 2
  /\ \E i \in 1 .. (Len(Input) - 1) : Input[i] \in WhitespaceChars /\ Input[i + 1] = "("

\* The children of the syntax node n.
ChildrenOf(n) == {nodes[n].children[i] : i \in 1 .. Len(nodes[n].children)}

\* The statements in statement position under the statement S, each with
\* the role S's handler hands to markStmtChild for it; an absent else
\* branch is the null statement.
StmtChildrenOf(S) ==
  CASE ast[S].kind = "CompoundStmt" ->
         {<< ast[S].kids[i], "CompoundStatement_statement" >> : i \in 1 .. Len(ast[S].kids)}
    [] ast[S].kind = "IfStmt" ->
         {<< getThen(S), "IfStatement_thenStatement" >>,
          << getElse(S), "IfStatement_elseStatement" >>}
    [] ast[S].kind \in {"WhileStmt", "ForStmt", "SwitchStmt"} ->
         {<< getBody(S), "BodyStatement" >>}
    [] OTHER -> {}

\* The expression Child in statement position under the node P is wrapped:
\* its node has role ExpressionStatement_expression and is the first child
\* of an ExpressionStatement over its tokens and the semicolon after them,
\* which is a child of P with role Role.
ExprIsWrapped(P, Child, Role) ==
  /\ IgnoreImplicit(Child) \in DOMAIN Mapping.Nodes
  /\ LET E == Mapping.Nodes[IgnoreImplicit(Child)] IN
       /\ nodes[E].role = "ExpressionStatement_expression"
       /\ \E W \in ChildrenOf(P) :
            /\ nodes[W].kind = "ExpressionStatement"
            /\ nodes[W].role = Role
            /\ nodes[W].children # << >>
            /\ nodes[W].children[1] = E
            /\ LeavesOf(nodes, W) =
                 TokenRange(findToken(ast[Child].b),
                            findToken(ast[Child].e) + 1
                              + (IF tokens[findToken(ast[Child].e) + 1].kind = "semi"
                                   THEN 1 ELSE 0))
            /\ \A S \in DOMAIN Mapping.Nodes : Mapping.Nodes[S] # W

\* C21: Expression in statement position: when markStmtChild(Child, Role) is
\* given an expression, the expression's node receives role
\* ExpressionStatement_expression, a new ExpressionStatement node is folded
\* over the expression's tokens plus the trailing semicolon (if one
\* follows), and Role is given to that wrapper, not to the expression; for a
\* non-expression statement Role is given to the statement's recorded node,
\* and for a null child nothing changes.
C21_ExprInStmtPosition ==
  \A S \in StmtsOfAST \cap DOMAIN Mapping.Nodes : \A c \in StmtChildrenOf(S) :
    CASE c[1] = NullAST ->
           \A n \in ChildrenOf(Mapping.Nodes[S]) : nodes[n].role # c[2]
      [] c[1] # NullAST /\ isaExpr(c[1]) -> ExprIsWrapped(Mapping.Nodes[S], c[1], c[2])
      [] OTHER ->
           /\ c[1] \in DOMAIN Mapping.Nodes
           /\ nodes[Mapping.Nodes[c[1]]].role = c[2]
           /\ Mapping.Nodes[c[1]] \in ChildrenOf(Mapping.Nodes[S])

\* An if statement whose branches are an expression and a statement that
\* is none has been folded: the wrapper of the expression is its then
\* statement, the node recorded for the other statement its else statement.
C21_Witness ==
  /\ failure = NoFailure
  /\ \E S \in StmtsOfAST \cap DOMAIN Mapping.Nodes :
       /\ ast[S].kind = "IfStmt"
       /\ isaExpr(getThen(S))
       /\ ExprIsWrapped(Mapping.Nodes[S], getThen(S), "IfStatement_thenStatement")
       /\ getElse(S) # NullAST
       /\ ~isaExpr(getElse(S))
       /\ nodes[Mapping.Nodes[getElse(S)]].role = "IfStatement_elseStatement"

\* The declaration statements of the AST.
DeclStmtsOfAST == {S \in 1 .. Len(ast) : ast[S].kind = "DeclStmt"}

\* The declarations of the declaration statement S.
DeclsOfStmt(S) == {ast[S].kids[i] : i \in 1 .. Len(ast[S].kids)}

\* The visitor has not yet made the call TraverseStmt on S.
NotYetTraversed(S) ==
  \E c \in 1 .. Len(todo) : todo[c].h = "TraverseStmt" /\ todo[c].n = S

\* C22: Declaration statement semicolon: every declaration of a DeclStmt is
\* marked no-semicolon before any of them is traversed, so the
\* SimpleDeclaration folded for it never includes the trailing semicolon and
\* that semicolon is a direct child of the enclosing DeclarationStatement
\* node.
C22_DeclStmtSemicolon ==
  \A S \in DeclStmtsOfAST :
    /\ NotYetTraversed(S) =>
         \A D \in DeclsOfStmt(S) :
           /\ D \notin DOMAIN Mapping.Nodes
           /\ lastOp.node # D
    /\ (~NotYetTraversed(S) /\ failure = NoFailure) =>
         DeclsOfStmt(S) \subseteq DeclsWithoutSemicolons
    /\ \A D \in DeclsOfStmt(S) \cap DOMAIN Mapping.Nodes :
         /\ nodes[Mapping.Nodes[D]].kind = "SimpleDeclaration"
         /\ \A l \in 1 .. Len(LeavesOf(nodes, Mapping.Nodes[D])) :
              tokens[LeavesOf(nodes, Mapping.Nodes[D])[l]].kind # "semi"
    /\ S \in DOMAIN Mapping.Nodes =>
         /\ nodes[Mapping.Nodes[S]].kind = "DeclarationStatement"
         /\ \E n \in ChildrenOf(Mapping.Nodes[S]) :
              /\ nodes[n].kind = "Leaf"
              /\ nodes[n].tok = findToken(ast[S].e)
              /\ tokens[nodes[n].tok].kind = "semi"
         /\ \E D \in DeclsOfStmt(S) \cap DOMAIN Mapping.Nodes :
              Mapping.Nodes[D] \in ChildrenOf(Mapping.Nodes[S])

\* The declaration statement `int a, *b = x;` has been folded: its two
\* children are the SimpleDeclaration and the semicolon.
C22_Witness ==
  /\ failure = NoFailure
  /\ \E S \in DeclStmtsOfAST \cap DOMAIN Mapping.Nodes :
       /\ Cardinality(DeclsOfStmt(S)) = 2
       /\ DeclsOfStmt(S) \subseteq DeclsWithoutSemicolons
       /\ Len(nodes[Mapping.Nodes[S]].children) = 2
       /\ \E D \in DeclsOfStmt(S) \cap DOMAIN Mapping.Nodes :
            /\ ast[D].kids # << NullAST >>
            /\ nodes[Mapping.Nodes[S]].children[1] = Mapping.Nodes[D]
       /\ nodes[nodes[Mapping.Nodes[S]].children[2]].kind = "Leaf"

\* The chains of type-locations GetStartLoc is asked about: the type of
\* every declarator, and the return type of every trailing return.
DeclaratorChains ==
  {ast[D].typeLoc.chain : D \in DeclaratorsOfAST}
  \cup UNION {{SubSeq(ast[D].typeLoc.chain, I + 1, Len(ast[D].typeLoc.chain)) :
                 I \in {k \in DOMAIN ast[D].typeLoc.chain :
                          /\ ast[D].typeLoc.chain[k].kind = "FunctionProto"
                          /\ ast[D].typeLoc.chain[k].trailing}} :
               D \in DeclaratorsOfAST}

\* The type-locations that are written before the name.
PrefixTypeLocKinds == {"Pointer", "Reference", "BlockPointer", "MemberPointer", "Paren"}

\* The pointer, reference and parenthesized type-locations of chain that
\* the walk reaches: those before any function type with a trailing return.
ReachablePrefixes(chain) ==
  {k \in 1 .. Len(chain) :
     /\ chain[k].kind \in PrefixTypeLocKinds
     /\ \A s \in 1 .. k : ~(chain[s].kind = "FunctionProto" /\ chain[s].trailing)}

\* C24: Declarator start: for any chain of nested type-locations GetStartLoc
\* returns the location of the innermost pointer, reference or parenthesized
\* type-location reachable along the chain, which is the one written first in
\* source; it never descends through a function type with a trailing return,
\* and it is invalid when no such type-location is reached.
C24_DeclaratorStart ==
  \A chain \in DeclaratorChains :
    IF ReachablePrefixes(chain) = {} THEN GetStartLoc(chain) = InvalidLoc
    ELSE /\ GetStartLoc(chain) = chain[Max(ReachablePrefixes(chain))].b
         /\ \A k \in ReachablePrefixes(chain) :
              ~isBeforeInTranslationUnit(chain[k].b, GetStartLoc(chain))

\* A declarator whose type has three pointers or parentheses, the nearest
\* to the name a pointer, has been folded: it starts at the one written
\* first, as in `int ***a;` and `int *(*a);`.
C24_Witness ==
  /\ failure = NoFailure
  /\ lastOp.op = "WalkUpFromDeclaratorDecl"
  /\ \E chain \in {ast[lastOp.node].typeLoc.chain} :
       /\ Cardinality(ReachablePrefixes(chain)) = 3
       /\ chain[1].kind = "Pointer"
       /\ GetStartLoc(chain) # chain[1].b
       /\ LeavesOf(nodes, Last(Cur) - 1)[1] = findToken(GetStartLoc(chain))
       /\ nodes[Last(Cur) - 1].kind = "SimpleDeclarator"

\* The range of the declarator of D as getDeclaratorRange computes it for
\* processDeclaratorAndDeclaration.
DeclaratorRangeOf(D) ==
  getDeclaratorRange(ast[D].typeLoc, getQualifiedNameStart(D), getInitializerRange(D))

\* Where the declarator of D starts: at the prefix found by GetStartLoc,
\* else at the name, which is invalid for a declarator without a name.
DeclaratorStart(D) ==
  IF GetStartLoc(ast[D].typeLoc.chain) # InvalidLoc
    THEN GetStartLoc(ast[D].typeLoc.chain)
  ELSE getQualifiedNameStart(D)

\* Where the declarator of D ends: at the end of the initializer when there
\* is one, else at the name when it lies after the end of the type-location,
\* else at the end of the type-location.
DeclaratorEnd(D) ==
  IF rangeIsValid(getInitializerRange(D)) THEN getInitializerRange(D).e
  ELSE IF /\ getQualifiedNameStart(D) # InvalidLoc
          /\ isBeforeInTranslationUnit(ast[D].typeLoc.e, getQualifiedNameStart(D))
    THEN getQualifiedNameStart(D)
  ELSE ast[D].typeLoc.e

\* The step WalkUpFromDeclaratorDecl that returns on the declaration D.
WalkedUpFromDeclaratorDecl(D) ==
  /\ lastOp'.op = "WalkUpFromDeclaratorDecl"
  /\ lastOp'.node = D
  /\ failure' = NoFailure

\* C23: Declarator range: getDeclaratorRange returns (Start, End), Start the
\* prefix location found by GetStartLoc, else the name location (invalid
\* when there is no name), End the end of the type-location, replaced by the
\* name when the name lies after it and then by the end of the initializer
\* when there is one; when Start is invalid no SimpleDeclarator is folded,
\* else one is folded over Start..End, and the SimpleDeclaration of a
\* responsible declaration is folded in both cases.
C23_DeclaratorRange ==
  [][\A D \in DeclaratorsOfAST :
       /\ DeclaratorRangeOf(D) =
            [ok |-> TRUE, r |-> SourceRange(DeclaratorStart(D), DeclaratorEnd(D))]
       /\ WalkedUpFromDeclaratorDecl(D) =>
            /\ IF DeclaratorStart(D) = InvalidLoc
                 THEN \A n \in (Len(nodes) + 1) .. Len(nodes') :
                        nodes'[n].kind # "SimpleDeclarator"
               ELSE /\ Len(nodes') > Len(nodes)
                    /\ nodes'[Len(nodes) + 1].kind = "SimpleDeclarator"
                    /\ nodes'[Len(nodes) + 1].role = "SimpleDeclaration_declarator"
                    /\ LeavesOf(nodes', Len(nodes) + 1) =
                         TokenRange(findToken(DeclaratorStart(D)),
                                    findToken(DeclaratorEnd(D)) + 1)
            /\ isResponsibleForCreatingDeclaration(D) =>
                 /\ D \notin DOMAIN Mapping.Nodes
                 /\ D \in DOMAIN Mapping'.Nodes
                 /\ Mapping'.Nodes[D] = Len(nodes')
                 /\ nodes'[Len(nodes')].kind = "SimpleDeclaration"]_vars

\* The parameter of `void f(int = 1);` has been folded: it has no name and
\* no prefix, so that its declarator has no start and only the
\* SimpleDeclaration was folded, over `int = 1`.
C23_Witness ==
  /\ failure = NoFailure
  /\ lastOp.op = "WalkUpFromDeclaratorDecl"
  /\ ast[lastOp.node].kind = "ParmVarDecl"
  /\ DeclaratorStart(lastOp.node) = InvalidLoc
  /\ getInit(lastOp.node) # NullAST
  /\ DeclaratorEnd(lastOp.node) = ast[getInit(lastOp.node)].e
  /\ lastOp.node \in DOMAIN Mapping.Nodes
  /\ nodes[Mapping.Nodes[lastOp.node]].kind = "SimpleDeclaration"
  /\ Len(LeavesOf(nodes, Mapping.Nodes[lastOp.node])) = 3
  /\ \A n \in 1 .. Len(nodes) : nodes[n].kind # "SimpleDeclarator"

\* The name specifiers of the AST.
SpecifiersOfAST ==
  {Q \in 1 .. Len(ast) : ast[Q].kind = "NestedNameSpecifierLoc"}

\* The kind of node a name specifier is to get, by the kind of the
\* specifier and the class of its type; "" for a specifier that has none.
NameSpecifierKindOf(specifier, typeClass) ==
  IF specifier = "Global" THEN "GlobalNameSpecifier"
  ELSE IF specifier \in {"Namespace", "NamespaceAlias", "Identifier"}
    THEN "IdentifierNameSpecifier"
  ELSE IF specifier = "TypeSpecWithTemplate" THEN "SimpleTemplateNameSpecifier"
  ELSE IF specifier = "TypeSpec"
    THEN (IF typeClass = "Decltype" THEN "DecltypeNameSpecifier"
          ELSE IF typeClass \in {"TemplateSpecialization", "DependentTemplateSpecialization"}
            THEN "SimpleTemplateNameSpecifier"
          ELSE "IdentifierNameSpecifier")
  ELSE ""

\* The visitor has built the node of the specifier Q: it has traversed a
\* qualifier that Q is part of, and did not abort.
SpecifierIsBuilt(Q) ==
  /\ failure = NoFailure
  /\ \E R \in DOMAIN Mapping.NNSNodes :
       \E i \in 1 .. Len(SpecifiersOf(R)) : SpecifiersOf(R)[i] = Q

\* C25: Name-specifier classification: getNameSpecifierKind maps Global to
\* GlobalNameSpecifier; Namespace, NamespaceAlias and Identifier to
\* IdentifierNameSpecifier; TypeSpecWithTemplate to
\* SimpleTemplateNameSpecifier; TypeSpec to DecltypeNameSpecifier for a
\* decltype type, to SimpleTemplateNameSpecifier for a (dependent) template
\* specialization and to IdentifierNameSpecifier otherwise; any other kind
\* (`__super`) aborts the build with the error that it is not yet supported.
\* The node built for the specifier has that kind.
C25_NameSpecifierKind ==
  /\ \A Q \in SpecifiersOfAST :
       /\ ast[Q].specifier # "Super" =>
            getNameSpecifierKind(Q) = NameSpecifierKindOf(ast[Q].specifier, ast[Q].typeClass)
       /\ ast[Q].specifier = "Super" =>
            /\ getNameSpecifierKind(Q) \notin NameSpecifierKinds
            /\ ~SpecifierIsBuilt(Q)
            /\ failure = NoFailure =>
                 BuildNameSpecifier(Cur, Q).failure =
                   "We don't yet support the __super specifier"
       /\ SpecifierIsBuilt(Q) =>
            \E n \in 1 .. Len(nodes) :
              /\ nodes[n].kind = NameSpecifierKindOf(ast[Q].specifier, ast[Q].typeClass)
              /\ LeavesOf(nodes, n) = TokenRange(findToken(getLocalSourceRange(Q).b),
                                                 findToken(ast[Q].e))
  /\ (lastOp.op = "TraverseNestedNameSpecifierLoc"
        /\ \E Q \in SpecifiersOfAST :
             ast[Q].specifier = "Super" /\ \A R \in SpecifiersOfAST : R <= Q) =>
       failure = "We don't yet support the __super specifier"

\* The qualifier of `n::template T<int>::x` has been folded, n a namespace
\* alias: the two specifiers got an IdentifierNameSpecifier and a
\* SimpleTemplateNameSpecifier.
C25_Witness ==
  /\ lastOp.op = "TraverseNestedNameSpecifierLoc"
  /\ \E Q \in SpecifiersOfAST, R \in SpecifiersOfAST :
       /\ SpecifierIsBuilt(Q) /\ SpecifierIsBuilt(R)
       /\ ast[Q].specifier = "NamespaceAlias"
       /\ ast[R].specifier = "TypeSpecWithTemplate"
       /\ getNameSpecifierKind(Q) = "IdentifierNameSpecifier"
       /\ getNameSpecifierKind(R) = "SimpleTemplateNameSpecifier"
       /\ \E n \in 1 .. Len(nodes) : nodes[n].kind = "SimpleTemplateNameSpecifier"

\* The member expressions of the AST.
MemberExprsOfAST == {S \in 1 .. Len(ast) : ast[S].kind = "MemberExpr"}

\* No AST node is recorded for the syntax node n.
NotRecorded(n) == \A A \in DOMAIN Mapping.Nodes : Mapping.Nodes[A] # n

\* C26: Member expression: for an implicit access only an IdExpression is
\* built, and it is recorded for the member expression; otherwise a
\* MemberExpression is folded and recorded whose children are the base with
\* role MemberExpression_object, the `.` or `->` token with role
\* MemberExpression_accessToken, and an IdExpression that is not recorded,
\* with role MemberExpression_member.
C26_MemberExpression ==
  /\ lastOp.op = "WalkUpFromMemberExpr" =>
       failure = NoFailure /\ lastOp.node \in DOMAIN Mapping.Nodes
  /\ \A S \in MemberExprsOfAST \cap DOMAIN Mapping.Nodes :
       LET N == nodes[Mapping.Nodes[S]] IN
       IF isImplicitAccess(S)
         THEN /\ N.kind = "IdExpression"
              /\ \A n \in 1 .. Len(nodes) : nodes[n].kind # "MemberExpression"
              /\ LeavesOf(nodes, Mapping.Nodes[S]) =
                   TokenRange(findToken(ast[S].b), findToken(ast[S].e) + 1)
       ELSE /\ N.kind = "MemberExpression"
            /\ Len(N.children) = 3
            /\ N.children[1] = Mapping.Nodes[getBase(S)]
            /\ nodes[N.children[1]].role = "MemberExpression_object"
            /\ nodes[N.children[2]].kind = "Leaf"
            /\ nodes[N.children[2]].tok = findToken(ast[S].operatorLoc)
            /\ tokens[nodes[N.children[2]].tok].kind \in {"period", "arrow"}
            /\ nodes[N.children[2]].role = "MemberExpression_accessToken"
            /\ nodes[N.children[3]].kind = "IdExpression"
            /\ nodes[N.children[3]].role = "MemberExpression_member"
            /\ NotRecorded(N.children[3])
            /\ LeavesOf(nodes, N.children[3]) =
                 TokenRange(findToken(ast[S].operatorLoc) + 1, findToken(ast[S].e) + 1)

\* The member expression `a->S::x` has been folded: its children are the
\* IdExpression of `a`, the arrow, and the IdExpression of `S::x`.
C26_Witness ==
  /\ lastOp.op = "WalkUpFromMemberExpr"
  /\ failure = NoFailure
  /\ ~isImplicitAccess(lastOp.node)
  /\ ast[lastOp.node].qualifier # NullAST
  /\ ast[getBase(lastOp.node)].kind = "DeclRefExpr"
  /\ nodes[Mapping.Nodes[lastOp.node]].kind = "MemberExpression"
  /\ tokens[nodes[nodes[Mapping.Nodes[lastOp.node]].children[2]].tok].kind = "arrow"
  /\ Len(LeavesOf(nodes, nodes[Mapping.Nodes[lastOp.node]].children[3])) = 3

\* The type-location the visitor is about to walk up from.
TypeLocToVisit == ast[Head(todo).n].typeLoc.chain[Head(todo).i]

\* The type-locations of the return type of the function type-location
\* the visitor is about to walk up from.
ReturnTypeToVisit ==
  SubSeq(ast[Head(todo).n].typeLoc.chain, Head(todo).i + 1,
         Len(ast[Head(todo).n].typeLoc.chain))

\* The step WalkUpFromFunctionProtoTypeLoc that returns on a function type
\* with a trailing return.
WalkedUpFromTrailingReturn ==
  /\ lastOp'.op = "WalkUpFromFunctionProtoTypeLoc"
  /\ failure' = NoFailure
  /\ TypeLocToVisit.trailing

\* The children of the node n of the arena ns that are SimpleDeclarators.
DeclaratorsIn(ns, n) ==
  {i \in 1 .. Len(ns[n].children) : ns[ns[n].children[i]].kind = "SimpleDeclarator"}

\* C27: Trailing return: for a function type with a trailing return a
\* TrailingReturnType node is folded before the ParametersAndQualifiers
\* node; it covers exactly `->` through the end of the return type; its first
\* child is the arrow with role ArrowToken, and it has a SimpleDeclarator
\* child, with role TrailingReturnType_declarator, only when the return type
\* has a declarator prefix; the node is a child of the
\* ParametersAndQualifiers node with role ParametersAndQualifiers_trailingReturn.
C27_TrailingReturn ==
  [][WalkedUpFromTrailingReturn =>
       \E P \in {Len(nodes')} : \E T \in {nodes'[P].children[Len(nodes'[P].children)]} :
         /\ nodes'[P].kind = "ParametersAndQualifiers"
         /\ nodes'[T].kind = "TrailingReturnType"
         /\ Len(nodes) < T /\ T < P
         /\ \A n \in (Len(nodes) + 1) .. Len(nodes') :
              nodes'[n].kind = "TrailingReturnType" => n = T
         /\ nodes'[T].role = "ParametersAndQualifiers_trailingReturn"
         /\ LeavesOf(nodes', T) = TokenRange(findToken(TypeLocToVisit.returnLoc.b) - 1,
                                             findToken(TypeLocToVisit.returnLoc.e) + 1)
         /\ tokens[LeavesOf(nodes', T)[1]].kind = "arrow"
         /\ nodes'[nodes'[T].children[1]].kind = "Leaf"
         /\ nodes'[nodes'[T].children[1]].role = "ArrowToken"
         /\ LeavesOf(nodes', P) = TokenRange(findToken(TypeLocToVisit.b),
                                             findToken(TypeLocToVisit.returnLoc.e) + 1)
         /\ IF ReachablePrefixes(ReturnTypeToVisit) = {}
              THEN DeclaratorsIn(nodes', T) = {}
            ELSE /\ Cardinality(DeclaratorsIn(nodes', T)) = 1
                 /\ \A i \in DeclaratorsIn(nodes', T) :
                      /\ nodes'[nodes'[T].children[i]].role = "TrailingReturnType_declarator"
                      /\ LeavesOf(nodes', nodes'[T].children[i]) =
                           TokenRange(
                             findToken(ReturnTypeToVisit[Max(ReachablePrefixes(
                                                               ReturnTypeToVisit))].b),
                             findToken(TypeLocToVisit.returnLoc.e) + 1)]_vars

\* The function type of `auto f() -> int *;` has been folded: the
\* ParametersAndQualifiers node is `(`, `)` and the TrailingReturnType, whose
\* children are the arrow, `int` and the SimpleDeclarator of `*`.
C27_Witness ==
  /\ lastOp.op = "WalkUpFromFunctionProtoTypeLoc"
  /\ failure = NoFailure
  /\ ast[lastOp.node].typeLoc.chain[1].trailing
  /\ nodes[Len(nodes)].kind = "ParametersAndQualifiers"
  /\ Len(nodes[Len(nodes)].children) = 3
  /\ nodes[nodes[Len(nodes)].children[3]].kind = "TrailingReturnType"
  /\ Len(nodes[nodes[Len(nodes)].children[3]].children) = 3
  /\ nodes[nodes[nodes[Len(nodes)].children[3]].children[3]].kind = "SimpleDeclarator"
  /\ nodes[nodes[nodes[Len(nodes)].children[3]].children[3]].role =
       "TrailingReturnType_declarator"

\* The class template specializations of the AST.
SpecializationsOfAST ==
  {C \in 1 .. Len(ast) : ast[C].kind = "ClassTemplateSpecializationDecl"}

\* The explicit instantiations the visitor has passed.
InstantiationsBuilt ==
  {C \in SpecializationsOfAST :
     ~ast[C].isExplicitSpecialization /\ C \in DOMAIN Mapping.Nodes}

\* C28: Explicit template instantiation: for a class template specialization
\* that is not an explicit specialization, a SimpleDeclaration is folded
\* first, over the tokens from the tag keyword to the semicolon, and then an
\* ExplicitTemplateInstantiation over the whole declaration, recorded for the
\* specialization; its children are `extern` when present, with role
\* ExternKeyword, `template` with role IntroducerKeyword, and that
\* SimpleDeclaration with role ExplicitTemplateInstantiation_declaration. No
\* ExplicitTemplateInstantiation is built for an explicit specialization.
C28_ExplicitInstantiation ==
  /\ lastOp.op = "TraverseClassTemplateSpecializationDecl" =>
       /\ failure = NoFailure
       /\ ast[lastOp.node].isExplicitSpecialization
            \/ lastOp.node \in DOMAIN Mapping.Nodes
  /\ \A n \in 1 .. Len(nodes) :
       nodes[n].kind = "ExplicitTemplateInstantiation" =>
         \E C \in InstantiationsBuilt : Mapping.Nodes[C] = n
  /\ \A C \in InstantiationsBuilt :
       LET I == Mapping.Nodes[C]
           N == nodes[I]
           isExtern == ast[C].externLoc # InvalidLoc
           k == IF isExtern THEN 1 ELSE 0
       IN  /\ N.kind = "ExplicitTemplateInstantiation"
           /\ LeavesOf(nodes, I) = TokenRange(findToken(ast[C].b), findToken(ast[C].e) + 2)
           /\ tokens[findToken(ast[C].e) + 1].kind = "semi"
           /\ Len(N.children) = k + 2
           /\ isExtern =>
                /\ nodes[N.children[1]].kind = "Leaf"
                /\ nodes[N.children[1]].tok = findToken(ast[C].externLoc)
                /\ tokens[nodes[N.children[1]].tok].kind = "kw_extern"
                /\ nodes[N.children[1]].role = "ExternKeyword"
           /\ nodes[N.children[k + 1]].kind = "Leaf"
           /\ nodes[N.children[k + 1]].tok = findToken(ast[C].templateKwLoc)
           /\ tokens[nodes[N.children[k + 1]].tok].kind = "kw_template"
           /\ nodes[N.children[k + 1]].role = "IntroducerKeyword"
           /\ nodes[N.children[k + 2]].kind = "SimpleDeclaration"
           /\ nodes[N.children[k + 2]].role = "ExplicitTemplateInstantiation_declaration"
           /\ N.children[k + 2] < I
           /\ NotRecorded(N.children[k + 2])
           /\ LeavesOf(nodes, N.children[k + 2]) =
                TokenRange(findToken(ast[C].tagLoc), findToken(ast[C].e) + 2)

\* `extern template struct X<int>;` has been folded: `extern`, `template`
\* and the SimpleDeclaration of `struct X<int>;` are the three children of
\* its ExplicitTemplateInstantiation.
C28_Witness ==
  /\ lastOp.op = "TraverseClassTemplateSpecializationDecl"
  /\ failure = NoFailure
  /\ ~ast[lastOp.node].isExplicitSpecialization
  /\ ast[lastOp.node].externLoc # InvalidLoc
  /\ nodes[Mapping.Nodes[lastOp.node]].kind = "ExplicitTemplateInstantiation"
  /\ Len(nodes[Mapping.Nodes[lastOp.node]].children) = 3
  /\ Len(LeavesOf(nodes, Mapping.Nodes[lastOp.node])) = 8

\* The namespace declarations of the AST.
NamespacesOfAST == {S \in 1 .. Len(ast) : ast[S].kind = "NamespaceDecl"}

\* The namespace S is one of a nested namespace definition: its tokens
\* begin with `::`.
BeginsWithColonColon(S) == tokens[findToken(ast[S].b)].kind = "coloncolon"

\* The namespace declaration that S is declared in.
EnclosingNamespace(S) ==
  CHOOSE O \in NamespacesOfAST : \E i \in 1 .. Len(ast[O].kids) : ast[O].kids[i] = S

\* The visitor has just walked up from the namespace S.
WalkedUpFromNamespace(S) ==
  /\ Calls("WalkUpFrom", {"NamespaceDecl"})
  /\ Head(todo).n = S
  /\ lastOp'.op = "WalkUpFromNamespaceDecl"

\* C29: Nested namespace definition: walking up from a namespace declaration
\* whose tokens begin with `::` folds nothing and records nothing; its tokens
\* are covered by the NamespaceDefinition that is folded afterwards for the
\* namespace it is declared in; and the range of a namespace is never
\* extended by a semicolon that follows it.
C29_NestedNamespace ==
  /\ [][\A S \in NamespacesOfAST :
          WalkedUpFromNamespace(S) =>
            /\ failure' = NoFailure
            /\ IF BeginsWithColonColon(S)
                 THEN /\ nodes' = nodes /\ Trees' = Trees /\ Mapping' = Mapping
                      /\ EnclosingNamespace(S) \notin DOMAIN Mapping.Nodes
                 ELSE /\ S \in DOMAIN Mapping'.Nodes
                      /\ Mapping'.Nodes[S] = Len(nodes')
                      /\ Len(nodes') = Len(nodes) + 1]_vars
  /\ [](\A S \in NamespacesOfAST :
          /\ getDeclarationRange(Cur, S) =
               TokRange(findToken(ast[S].b), findToken(ast[S].e) + 1)
          /\ BeginsWithColonColon(S) => S \notin DOMAIN Mapping.Nodes
          /\ S \in DOMAIN Mapping.Nodes =>
               /\ nodes[Mapping.Nodes[S]].kind = "NamespaceDefinition"
               /\ LeavesOf(nodes, Mapping.Nodes[S]) =
                    TokenRange(findToken(ast[S].b), findToken(ast[S].e) + 1)
               /\ \A I \in NamespacesOfAST :
                    (BeginsWithColonColon(I) /\ EnclosingNamespace(I) = S) =>
                      \A t \in findToken(ast[I].b) .. findToken(ast[I].e) :
                        \E i \in 1 .. Len(LeavesOf(nodes, Mapping.Nodes[S])) :
                          LeavesOf(nodes, Mapping.Nodes[S])[i] = t)

\* `namespace a::b { int x; };` has been built: the only
\* NamespaceDefinition is that of a, it holds the tokens of b and ends at the
\* closing brace, before the semicolon.
C29_Witness ==
  /\ lastOp.op = "WalkUpFromNamespaceDecl"
  /\ failure = NoFailure
  /\ lastOp.node \in DOMAIN Mapping.Nodes
  /\ \E I \in NamespacesOfAST :
       /\ BeginsWithColonColon(I)
       /\ EnclosingNamespace(I) = lastOp.node
       /\ \E D \in DeclaratorsOfAST : ast[D].ctx = ast[I].b
  /\ tokens[findToken(ast[lastOp.node].e) + 1].kind = "semi"
  /\ Len(LeavesOf(nodes, Mapping.Nodes[lastOp.node])) = 9
  /\ Cardinality({n \in 1 .. Len(nodes) : nodes[n].kind = "NamespaceDefinition"}) = 1

\* The token ranges a client folds.
ClientRanges ==
  {r \in (1 .. NumTokens) \X (2 .. (NumTokens + 1)) : r[1] < r[2]}

\* Every entry of the map M is an entry of the map N as well.
EntriesKept(M, N) == \A P \in DOMAIN M : P \in DOMAIN N /\ N[P] = M[P]

\* The step is a foldNode that has returned, and has allocated a node of
\* the kind `kind`.
HasFolded(kind) ==
  /\ lastOp'.op = "foldNode"
  /\ failure' = NoFailure
  /\ nodes'[Len(nodes')].kind = kind

\* The step is a foldNode that has aborted, after it has allocated a node
\* of the kind `kind`.
HasAbortedFold(kind) ==
  /\ lastOp'.op = "foldNode"
  /\ failure' # NoFailure
  /\ nodes'[Len(nodes')].kind = kind

\* A foldNode for the key From has returned, M and N being the map before
\* and after it: a null key adds no entry, any other key had no entry and
\* gets the new node as its entry, the only new one.
InsertedOnce(From, M, N) ==
  IF From = NullAST THEN N = M
  ELSE From \notin DOMAIN M /\ N = (From :> Len(nodes')) @@ M

\* A foldNode for a key that has an entry has aborted: with 'mapping added
\* twice', unless the fold itself had failed already.
AbortedSecondInsertion(folded) ==
  failure' = IF folded.failure # NoFailure THEN folded.failure
             ELSE "mapping added twice"

\* C30: AST-to-CST map: a key, of an AST node or of a qualifier, is
\* inserted at most once, and a second foldNode for it aborts with 'mapping
\* added twice'; an entry is never changed or removed; a foldNode with a
\* null key inserts nothing; find returns the tree recorded for the key, and
\* null when none was recorded.
C30_MappingInsertOnce ==
  /\ [][/\ EntriesKept(Mapping.Nodes, Mapping'.Nodes)
        /\ EntriesKept(Mapping.NNSNodes, Mapping'.NNSNodes)
        /\ failure' # NoFailure => Mapping' = Mapping
        /\ \A From \in ClientKeys :
             /\ (HasFolded("UnknownStatement")
                   /\ FoldNode(lastOp'.b, lastOp'.e, From)) =>
                  /\ InsertedOnce(From, Mapping.Nodes, Mapping'.Nodes)
                  /\ Mapping'.NNSNodes = Mapping.NNSNodes
             /\ (HasFolded("NestedNameSpecifier")
                   /\ FoldNodeNNS(lastOp'.b, lastOp'.e, From)) =>
                  /\ InsertedOnce(From, Mapping.NNSNodes, Mapping'.NNSNodes)
                  /\ Mapping'.Nodes = Mapping.Nodes
        /\ \A r \in ClientRanges :
             /\ \A From \in DOMAIN Mapping.Nodes :
                  (HasAbortedFold("UnknownStatement") /\ FoldNode(r[1], r[2], From)) =>
                    AbortedSecondInsertion(
                      foldChildren(Alloc(Cur, "UnknownStatement"), r[1], r[2],
                                   Len(nodes) + 1))
             /\ \A From \in DOMAIN Mapping.NNSNodes :
                  (HasAbortedFold("NestedNameSpecifier")
                     /\ FoldNodeNNS(r[1], r[2], From)) =>
                    AbortedSecondInsertion(
                      foldChildren(Alloc(Cur, "NestedNameSpecifier"), r[1], r[2],
                                   Len(nodes) + 1))
        /\ \A N \in ClientKeys \ {NullAST} : \A R \in ClientRoles :
             (lastOp'.op = "markChild" /\ MarkChildAST(N, R)) =>
               /\ Mapping' = Mapping
               /\ N \notin DOMAIN Mapping.Nodes => failure' = "SN != nullptr"
               /\ (N \in DOMAIN Mapping.Nodes /\ failure' = NoFailure) =>
                    /\ nodes[Mapping.Nodes[N]].role = "Detached"
                    /\ nodes' = [nodes EXCEPT ![Mapping.Nodes[N]].role = R]]_vars
  /\ [](\A P \in ClientKeys :
          /\ MappingFind(Cur, P) =
               IF P \in DOMAIN Mapping.Nodes THEN Mapping.Nodes[P] ELSE 0
          /\ MappingFindNNS(Cur, P) =
               IF P \in DOMAIN Mapping.NNSNodes THEN Mapping.NNSNodes[P] ELSE 0
          /\ MappingFind(Cur, P) \in {0} \cup ((NumTokens + 1) .. Len(nodes))
          /\ MappingFindNNS(Cur, P) \in {0} \cup ((NumTokens + 1) .. Len(nodes))
          /\ P = NullAST => MappingFind(Cur, P) = 0 /\ MappingFindNNS(Cur, P) = 0)

\* A second foldNode for the AST node 1 has aborted the builder: the map
\* still holds the first node that was folded for it.
C30_Witness ==
  /\ failure = "mapping added twice"
  /\ lastOp.op = "foldNode"
  /\ DOMAIN Mapping.Nodes = {1}
  /\ Mapping.Nodes[1] = NumTokens + 1
  /\ Len(nodes) = NumTokens + 2
  /\ nodes[Len(nodes)].kind = "UnknownStatement"

-----------------------------------------------------------------------------
(* Built-in and overloaded operators.                                      *)

\* The built-in operators of the AST.
BuiltinOperatorsOfAST ==
  {S \in DOMAIN ast : ast[S].kind \in {"BinaryOperator", "UnaryOperator"}}

\* The kinds of the tokens the expression S is written with.
WrittenAs(S) ==
  [i \in 1 .. (LocationToToken(ast[S].e) - LocationToToken(ast[S].b) + 1) |->
     tokens[LocationToToken(ast[S].b) + i - 1].kind]

\* The shape of syntax node n: its kind and, of each child in order, the
\* role, the kind and, for a leaf, the kind of its token.
ShapeOf(n) ==
  [kind |-> nodes[n].kind,
   children |->
     [i \in 1 .. Len(nodes[n].children) |->
        [role |-> nodes[nodes[n].children[i]].role,
         kind |-> nodes[nodes[n].children[i]].kind,
         token |-> IF nodes[nodes[n].children[i]].kind = "Leaf"
                     THEN tokens[nodes[nodes[n].children[i]].tok].kind
                   ELSE ""]]]

\* The roles of the children an operator expression of kind k has, in order.
OperatorRoles(k) ==
  CASE k = "BinaryOperatorExpression" ->
         << "BinaryOperatorExpression_leftHandSide", "OperatorExpression_operatorToken",
            "BinaryOperatorExpression_rightHandSide" >>
    [] k = "PrefixUnaryOperatorExpression" ->
         << "OperatorExpression_operatorToken", "UnaryOperatorExpression_operand" >>
    [] k = "PostfixUnaryOperatorExpression" ->
         << "UnaryOperatorExpression_operand", "OperatorExpression_operatorToken" >>
    [] OTHER -> << >>

\* The built-in operator B and the operator call C, written alike, both
\* have their nodes.
BothBuilt(B, C) ==
  /\ B \in DOMAIN Mapping.Nodes
  /\ C \in DOMAIN Mapping.Nodes
  /\ WrittenAs(B) = WrittenAs(C)
  /\ getOperatorNodeKind(ast[C].op, Len(ast[C].kids))
       \in {"BinaryOperatorExpression", "PrefixUnaryOperatorExpression",
            "PostfixUnaryOperatorExpression"}

\* C32: Built-in and overloaded operators give the same shape: for the same
\* written expression `a op b`, `op a` or `a op`, the node built from a
\* BinaryOperator or UnaryOperator and the node built from a
\* CXXOperatorCallExpr classified binary, prefix or postfix have the same
\* kind, the same children in the same order with the same roles
\* (leftHandSide, operatorToken, rightHandSide; operand and operatorToken),
\* and the operator is a plain token leaf in both.
C32_SameShape ==
  \A B \in BuiltinOperatorsOfAST : \A C \in OperatorCallsOfAST :
    BothBuilt(B, C) =>
      /\ ShapeOf(Mapping.Nodes[B]) = ShapeOf(Mapping.Nodes[C])
      /\ ShapeOf(Mapping.Nodes[C]).kind = getOperatorNodeKind(ast[C].op, Len(ast[C].kids))
      /\ [i \in 1 .. Len(ShapeOf(Mapping.Nodes[C]).children) |->
            ShapeOf(Mapping.Nodes[C]).children[i].role]
           = OperatorRoles(ShapeOf(Mapping.Nodes[C]).kind)
      /\ \A i \in 1 .. Len(ShapeOf(Mapping.Nodes[C]).children) :
           ShapeOf(Mapping.Nodes[C]).children[i].role
               = "OperatorExpression_operatorToken" =>
             /\ ShapeOf(Mapping.Nodes[C]).children[i].kind = "Leaf"
             /\ ShapeOf(Mapping.Nodes[C]).children[i].token = ast[C].op

\* `a++; x++;` is built: the built-in postfix operator and the overloaded
\* one both have their node, of the postfix kind.
C32_Witness ==
  /\ phase = "done"
  /\ \E B \in BuiltinOperatorsOfAST : \E C \in OperatorCallsOfAST :
       /\ BothBuilt(B, C)
       /\ isPostfix(ast[B].op)
       /\ nodes[Mapping.Nodes[B]].kind = "PostfixUnaryOperatorExpression"
       /\ nodes[Mapping.Nodes[C]].kind = "PostfixUnaryOperatorExpression"

-----------------------------------------------------------------------------
(* Children resolved by AST identity.                                      *)

\* The statements and declarations the call c of the visitor resolves by
\* their key: the operands of an operator, the object of a member
\* expression, the statements of a compound statement, the branches of an
\* `if`, the body of a loop or a switch, the value of a return and the
\* parameters of a function type.
ResolvedChildren(c) ==
  LET S == c.n
      operands ==
        CASE ast[S].kind = "BinaryOperator" -> {1, 2}
          [] ast[S].kind = "UnaryOperator" -> {1}
          [] ast[S].kind = "CXXOperatorCallExpr" ->
               (CASE getOperatorNodeKind(ast[S].op, Len(ast[S].kids))
                       = "BinaryOperatorExpression" -> {1, 2}
                  [] getOperatorNodeKind(ast[S].op, Len(ast[S].kids))
                       \in {"PrefixUnaryOperatorExpression",
                            "PostfixUnaryOperatorExpression"} -> {1}
                  [] OTHER -> {})
          [] ast[S].kind = "MemberExpr" -> IF isImplicitAccess(S) THEN {} ELSE {1}
          [] ast[S].kind = "CompoundStmt" -> DOMAIN ast[S].kids
          [] ast[S].kind = "IfStmt" -> {2, 3}
          [] ast[S].kind \in {"WhileStmt", "ForStmt", "SwitchStmt"} -> {Len(ast[S].kids)}
          [] ast[S].kind = "ReturnStmt" -> {1}
          [] OTHER -> {}
  IN  CASE c.h = "WalkUpFrom" -> {ast[S].kids[i] : i \in operands} \ {NullAST}
        [] c.h = "WalkUpFromFunctionProtoTypeLoc" ->
             {ast[S].typeLoc.chain[c.i].params[i] :
                i \in DOMAIN ast[S].typeLoc.chain[c.i].params}
        [] OTHER -> {}

\* The qualifier the call c of the visitor resolves by its key.
ResolvedQualifiers(c) ==
  IF c.h = "WalkUpFrom" /\ ast[c.n].kind \in {"DeclRefExpr", "MemberExpr"}
    THEN {ast[c.n].qualifier} \ {NullAST}
  ELSE {}

\* The key the child is looked up under: an expression without the
\* implicit nodes above it.
KeyOf(Child) == IF isaExpr(Child) THEN IgnoreImplicit(Child) ELSE Child

\* C31: Post-order resolution: whenever a handler resolves a child by AST
\* identity (markChild by the key of a statement, a declaration or a name
\* specifier, markExprChild, markStmtChild on a statement that is not an
\* expression), the fold of the child has happened and its node is found in
\* the map with the role Detached; expressions are recorded and looked up
\* without their implicit nodes, so that an expression wrapped in implicit
\* conversions resolves to the node of the written expression.
C31_PostOrderResolution ==
  /\ [][(phase = "building" /\ todo # << >>) =>
          /\ failure' \notin {"ChildNode != nullptr", "SN != nullptr"}
          /\ \A Child \in ResolvedChildren(Head(todo)) :
               /\ KeyOf(Child) \in DOMAIN Mapping.Nodes
               /\ nodes[Mapping.Nodes[KeyOf(Child)]].role = "Detached"
               /\ failure' = NoFailure =>
                    /\ Mapping'.Nodes[KeyOf(Child)] = Mapping.Nodes[KeyOf(Child)]
                    /\ nodes'[Mapping.Nodes[KeyOf(Child)]].role # "Detached"
                    /\ IF isaExpr(Child)
                         THEN LeavesOf(nodes', Mapping.Nodes[KeyOf(Child)])
                                = [i \in 1 .. (LocationToToken(ast[KeyOf(Child)].e)
                                                 - LocationToToken(ast[KeyOf(Child)].b) + 1) |->
                                     LocationToToken(ast[KeyOf(Child)].b) + i - 1]
                       ELSE TRUE
          /\ \A Q \in ResolvedQualifiers(Head(todo)) :
               /\ Q \in DOMAIN Mapping.NNSNodes
               /\ nodes[Mapping.NNSNodes[Q]].role = "Detached"]_vars
  /\ [](\A E \in DOMAIN Mapping.Nodes : ~isImplicitExpr(E))

\* `a + b` with both operands in implicit conversions is folded: the left
\* operand was looked up as the DeclRefExpr under its ImplicitCastExpr.
C31_Witness ==
  /\ lastOp.op = "WalkUpFromBinaryOperator"
  /\ failure = NoFailure
  /\ isImplicitExpr(ast[lastOp.node].kids[1])
  /\ isImplicitExpr(ast[lastOp.node].kids[2])
  /\ nodes[Mapping.Nodes[IgnoreImplicit(ast[lastOp.node].kids[1])]].role
       = "BinaryOperatorExpression_leftHandSide"

-----------------------------------------------------------------------------
(* The eof token.                                                          *)

\* The tokens the builder computes for the AST node S before it looks for
\* a semicolon after them.
WrittenRange(S) ==
  IF ast[S].isDecl /\ ast[S].kind \in TagDeclKinds THEN getRange(ast[S].tagLoc, ast[S].e)
  ELSE getRangeOf(SourceRange(ast[S].b, ast[S].e))

\* The range of tokens the builder folds or marks for the AST node S.
FoldRange(S) ==
  IF ast[S].isDecl THEN getDeclarationRange(Cur, S) ELSE getStmtRange(S)

\* The token withTrailingSemicolon looks at after the tokens of R.
Lookahead(R) == R.e

\* C33: EOF is never consumed: no forest entry, fold range or role
\* assignment ever covers the eof token, and so the one-token lookahead of
\* withTrailingSemicolon always reads a token of the expanded token array,
\* at worst eof itself.
\* The root of a file of no tokens is folded over the empty range at eof:
\* its entry has that key and covers no token.
C33_EOFNeverConsumed ==
  /\ \A k \in DOMAIN Trees :
       \/ k \in 1 .. NumTokens
       \/ k = Len(tokens) /\ NumTokens = 0 /\ nodes[Trees[k]].children = << >>
  /\ \A n \in DOMAIN nodes :
       /\ nodes[n].kind = "Leaf" => nodes[n].tok \in 1 .. NumTokens
       /\ \A i \in DOMAIN LeavesOf(nodes, n) : LeavesOf(nodes, n)[i] \in 1 .. NumTokens
  /\ lastOp.op = "finalize" => lastOp.e = Len(tokens) /\ tokens[lastOp.e].kind = "eof"
  /\ \A S \in DOMAIN ast :
       WrittenRange(S).ok =>
         /\ WrittenRange(S).e - 1 \in 1 .. NumTokens
         /\ Lookahead(WrittenRange(S)) \in 1 .. Len(tokens)
         /\ withTrailingSemicolon(WrittenRange(S)).ok
         /\ FoldRange(S).ok
         /\ FoldRange(S).b \in 1 .. NumTokens
         /\ FoldRange(S).e - 1 \in 1 .. NumTokens
         /\ \A t \in FoldRange(S).b .. (FoldRange(S).e - 1) : tokens[t].kind # "eof"

\* `void f() {}` at the end of the file is folded: the token after its
\* closing brace, which the builder looked at, is eof.
C33_Witness ==
  /\ phase = "done"
  /\ \E S \in DOMAIN Mapping.Nodes :
       /\ ast[S].isDecl
       /\ WrittenRange(S).ok
       /\ Lookahead(WrittenRange(S)) = Len(tokens)
       /\ tokens[Lookahead(WrittenRange(S))].kind = "eof"
       /\ FoldRange(S) = WrittenRange(S)

-----------------------------------------------------------------------------
(* Token children that are absent.                                         *)

\* The roles a handler gives to a token that may be absent.
OptionalTokenRoles == {"IfStatement_elseKeyword", "ExternKeyword", "TemplateKeyword"}

\* WalkUpFromIfStmt without the call that marks the `else` keyword.
WalkUpFromIfStmtWithoutElseKeyword(st, S) ==
  foldNew(markStmtChild(
            markStmtChild(markChildToken(st, ast[S].b, "IntroducerKeyword"),
                          getThen(S), "IfStatement_thenStatement"),
            getElse(S), "IfStatement_elseStatement"),
          getStmtRange(S), "IfStatement", S)

\* TraverseClassTemplateSpecializationDecl of the explicit instantiation C
\* without the call that marks the `extern` keyword.
TraverseInstantiationWithoutExternKeyword(st, C) ==
  foldNew(markChild(markChildTokenPtr(handleFreeStandingTagDecl(st, C),
                                      findToken(ast[C].templateKwLoc), "IntroducerKeyword"),
                    Last(handleFreeStandingTagDecl(st, C)),
                    "ExplicitTemplateInstantiation_declaration"),
          getTemplateRange(handleFreeStandingTagDecl(st, C), C),
          "ExplicitTemplateInstantiation", C)

\* C34: Absent token child: markChildToken with an invalid location or a
\* null token changes nothing (no role, no forest entry, no mapping);
\* findToken returns null for the invalid location and, for a location that
\* starts a token, that token; so a handler with an optional token (an `if`
\* without `else`, an instantiation without `extern`) folds exactly as if
\* the call had not been made.
C34_AbsentTokenChild ==
  /\ [](/\ \A Role \in OptionalTokenRoles :
             /\ markChildToken(Cur, InvalidLoc, Role) = Cur
             /\ markChildTokenPtr(Cur, 0, Role) = Cur
        /\ findToken(InvalidLoc) = 0
        /\ \A t \in 1 .. Len(tokens) :
             /\ ~findTokenFails(tokens[t].loc)
             /\ findToken(tokens[t].loc) = t)
  /\ [][/\ (Calls("WalkUpFrom", {"IfStmt"}) /\ ast[Head(todo).n].elseLoc = InvalidLoc) =>
             Cur' = WalkUpFromIfStmtWithoutElseKeyword(Cur, Head(todo).n)
        /\ (/\ Calls("TraverseClassTemplateSpecializationDecl",
                     {"ClassTemplateSpecializationDecl"})
            /\ ~ast[Head(todo).n].isExplicitSpecialization
            /\ ast[Head(todo).n].externLoc = InvalidLoc) =>
             Cur' = TraverseInstantiationWithoutExternKeyword(Cur, Head(todo).n)]_vars

\* `if (1) ;` without `else` is folded: an IfStatement of the keyword, the
\* parentheses, the condition and the then branch.
C34_Witness ==
  /\ lastOp.op = "WalkUpFromIfStmt"
  /\ failure = NoFailure
  /\ ast[lastOp.node].elseLoc = InvalidLoc
  /\ nodes[Mapping.Nodes[lastOp.node]].kind = "IfStatement"
  /\ \A c \in ChildrenOf(Mapping.Nodes[lastOp.node]) :
       nodes[c].role # "IfStatement_elseKeyword"

-----------------------------------------------------------------------------
(* What a fold leaves alone.                                               *)

\* Node n of the arena is the same before and after the step.
SameNode(n) == n \in DOMAIN nodes' /\ nodes'[n] = nodes[n]

\* Node n keeps its kind, its token and its children in their order.
SameBelow(n) ==
  /\ n \in DOMAIN nodes'
  /\ nodes'[n].kind = nodes[n].kind
  /\ nodes'[n].tok = nodes[n].tok
  /\ nodes'[n].children = nodes[n].children

\* C35: Frame of a fold: foldChildren over a range leaves unchanged every
\* forest entry outside the range (its key, its subtree, its role), the
\* role of every child that had a role other than Detached, and the
\* roles, the kinds and the order of the children of all deeper
\* descendants of the folded entries.
C35_FoldFrame ==
  [][(lastOp'.op \in {"foldNode", "finalize"} /\ failure' = NoFailure) =>
       \A k \in DOMAIN Trees :
         IF k < lastOp'.b \/ k >= lastOp'.e
           THEN /\ k \in DOMAIN Trees'
                /\ Trees'[k] = Trees[k]
                /\ \A n \in DescendantsOf(nodes, Trees[k]) : SameNode(n)
         ELSE /\ SameBelow(Trees[k])
              /\ nodes[Trees[k]].role # "Detached" =>
                   nodes'[Trees[k]].role = nodes[Trees[k]].role
              /\ \A n \in DescendantsOf(nodes, Trees[k]) \ {Trees[k]} : SameNode(n)]_vars

\* A fold has just taken an entry that had a role and an entry with a
\* child of its own, and left an entry after its range in the forest.
C35_Witness ==
  /\ lastOp.op = "foldNode"
  /\ failure = NoFailure
  /\ \E k \in DOMAIN Trees : k >= lastOp.e
  /\ \E c \in ChildrenOf(lastOp.node) : nodes[c].role = "IntroducerKeyword"
  /\ \E c \in ChildrenOf(lastOp.node) : nodes[c].children # << >>

-----------------------------------------------------------------------------
(* The empty translation unit.                                             *)

\* C36: Empty translation unit: when the expanded token array holds eof
\* alone, the construction of the builder and finalize complete without an
\* assertion failure and return a TranslationUnit node with no children.
C36_EmptyTranslationUnit ==
  (Len(tokens) = 1 /\ tokens[1].kind = "eof") =>
    /\ failure = NoFailure
    /\ phase # "aborted"
    /\ phase = "building" =>
         /\ nodes = << >> /\ Trees = << >>
         /\ finalizeFold(Cur).failure = NoFailure
    /\ phase = "folded" =>
         /\ ForestFinalize(Cur).failure = NoFailure
         /\ nodes[ForestRoot(Cur)].kind = "TranslationUnit"
    /\ phase = "done" =>
         /\ root \in DOMAIN nodes
         /\ nodes[root].kind = "TranslationUnit"
         /\ nodes[root].children = << >>
         /\ Len(nodes) = 1
         /\ Trees = << >>

\* finalize has returned the root of a file of no tokens.
C36_Witness ==
  /\ Len(tokens) = 1
  /\ tokens[1].kind = "eof"
  /\ phase = "done"
  /\ lastOp.op = "Forest::finalize"
  /\ nodes[root].kind = "TranslationUnit"
  /\ nodes[root].children = << >>

-----------------------------------------------------------------------------
(* The position of a parse error.                                          *)

\* The parse state with k characters of the input consumed.
StateAfter(k) == ParseState(drop_front(Input, k), Input)

\* The characters of the input from position Pos (0-based) on, at most
\* ExcerptLength of them.
ExcerptAt(Pos) ==
  [i \in 1 .. Min({ExcerptLength, Len(Input) - Pos}) |-> Input[Pos + i]]

\* C37: Parse error position: every ParseError of parseRangeSelector has
\* Pos = the length of the original input minus the length of the input
\* that remains in the failing state, 0 <= Pos <= the length of the input,
\* and its excerpt is the at most 20 characters of the original input
\* from Pos on; the original input is never modified during parsing.
C37_ParseErrorPosition ==
  /\ []((Parsed # NoResult /\ ~Parsed.ok) =>
          /\ Parsed.Error.Pos \in 0 .. Len(Input)
          /\ Parsed.Error.Excerpt = ExcerptAt(Parsed.Error.Pos)
          /\ Len(Parsed.Error.Excerpt) <= ExcerptLength)
  /\ [](\A k \in 0 .. Len(Input) :
          /\ makeParseError(StateAfter(k), << >>).Pos = k
          /\ makeParseError(StateAfter(k), << >>).Excerpt = ExcerptAt(k)
          /\ \A N \in 0 .. (Len(Input) - k) :
               /\ advance(StateAfter(k), N) = StateAfter(k + N)
               /\ advance(StateAfter(k), N).OriginalInput = Input)
  /\ [][Input' = Input]_vars

\* The parse failed after some characters and more than twenty characters
\* were left: the excerpt is the twenty that follow the position.
C37_Witness ==
  /\ Parsed # NoResult
  /\ ~Parsed.ok
  /\ Parsed.Error.Pos > 0
  /\ Len(Input) - Parsed.Error.Pos > ExcerptLength
  /\ Len(Parsed.Error.Excerpt) = ExcerptLength

=============================================================================
